---- MODULE Spec2Model ----
(***************************************************************************)
(* A model of the 3D Game of Life engine (class GameOfLife3D, listed in    *)
(* src/README.md lines 282-501) and of the grids it creates and mutates.   *)
(*                                                                         *)
(* A Grid3D is a JavaScript number[][][]: here a function over 0..n-1 of   *)
(* functions over 0..n-1 of functions over 0..n-1 of integers.  Grids are  *)
(* objects with identity: the heap is a sequence of grids and a reference  *)
(* is an index into it, so that aliasing between an argument and a result  *)
(* is something the model can exhibit.  Configuration objects have         *)
(* identity too: objs is the sequence of them, this.config is a reference  *)
(* into it, and the caller holds references to some of them.               *)
(*                                                                         *)
(* The React component that drives the engine (src/unnamed/part_002 lines  *)
(* 306-489, its buttons, its orbit controls and the sliders of its         *)
(* settings panel) is modelled too: ui is the state the component          *)
(* last rendered with, timers the intervals the browser has running for    *)
(* it, queue the updates React has not rendered yet and base the state     *)
(* they apply to.  An event handler is one step with the render it causes  *)
(* and the effects of that render; the effects of the first render run in  *)
(* a task of their own, and the updates an effect or a timer callback      *)
(* makes are rendered in a later task, which is a step of its              *)
(* own.  The visual grid, which the component keeps beside logicGrid for   *)
(* drawing, is held by its edge only: its cells decide nothing but what is *)
(* drawn, its edge whether the updater that ages them throws.              *)
(***************************************************************************)
EXTENDS Integers, Sequences, FiniteSets, TLC

VARIABLES
    objs,     \* the GameOfLife3DConfig objects allocated so far, by reference
    self,     \* this.config of the engine: a reference into objs
    held,     \* the references into objs that the caller holds
    latest,   \* for each field an updateConfig supplied, the value supplied last
    heap,     \* the Grid3D objects allocated so far, by reference
    grids,    \* the references into heap that the caller holds
    pre,      \* the heap as it was when the last operation was called
    preObjs,  \* objs as it was when the last operation was called
    preSelf,  \* self as it was when the last operation was called
    op,       \* the last operation called
    args,     \* its arguments
    ret,      \* what it returned
    calls,    \* number of calls made so far
    ui,       \* the useState values of the last render, and the simulationInterval ref
    timers,   \* the intervals setInterval created and clearInterval has not cleared
    queue,    \* for each hook, the updates dispatched and still to be rendered
    base,     \* for each hook, the state the first update of its queue applies to
    early,    \* events served since an update for a later task has been waiting
    events,   \* clicks, ticks, gestures and moves of the grid size, density and speed sliders served
    mounted,  \* whether the component is mounted
    work      \* whether the component's fiber or its alternate has work marked on it

vars == <<objs, self, held, latest, heap, grids, pre, preObjs, preSelf, op, args, ret, calls, ui, timers,
         queue, base, early, events, mounted, work>>

\* Mutant of config: the engine goes on reading the constructor's object.
config_stale == objs[1]

\* The object this.config refers to.
config == objs[self]

----------------------------------------------------------------------------
(* Bounds of the model *)

MaxLive == 1        \* grids of edge 3 have at most MaxLive live cells, or dead ones
MaxCalls == 2       \* calls in one run of the engine
MaxGeneration == 2  \* steps of the component that are rendered or wait to be
MaxEarly == 2       \* events served before React renders the updates of effects and timers
MaxEvents == 5      \* clicks, ticks, gestures and moves of the grid size, density and speed sliders
MaxLarge == 2       \* those of them served on the cube of edge InitialGridSize, of 8000 cells
MaxLargeCalls == 1  \* the first of these, among which the engine steps or fills that cube

\* A cell has 26 neighbours (3 x 3 x 3 minus the centre).
MaxNeighbors == 26

\* gridSize of the tests' defaultConfig.
TestGridSize == 5

----------------------------------------------------------------------------
(* JavaScript values *)

\* The results of a call: a number, a boolean, a grid reference, undefined
\* (a void return), NaN, or a thrown TypeError.
RetNum(n) == [kind |-> "number", num |-> n, bool |-> FALSE]
RetBool(b) == [kind |-> "boolean", num |-> 0, bool |-> b]
RetGrid(r) == [kind |-> "grid", num |-> r, bool |-> FALSE]
RetConfig(r) == [kind |-> "config", num |-> r, bool |-> FALSE]
RetVoid == [kind |-> "undefined", num |-> 0, bool |-> FALSE]
RetNaN == [kind |-> "NaN", num |-> 0, bool |-> FALSE]
RetThrow == [kind |-> "TypeError", num |-> 0, bool |-> FALSE]

\* a % b of JavaScript: the remainder takes the sign of the dividend.
JsRem(a, b) == IF a >= 0 THEN a % b ELSE -((-a) % b)

Idx(n) == 0 .. (n - 1)

\* A read grid[x][y][z]: indexing undefined throws a TypeError, a missing
\* last index reads undefined.
ReadCell(grid, x, y, z) ==
    IF x \notin DOMAIN grid THEN RetThrow
    ELSE IF y \notin DOMAIN grid[x] THEN RetThrow
    ELSE IF z \notin DOMAIN grid[x][y] THEN RetVoid
    ELSE RetNum(grid[x][y][z])

\* count += v
JsAdd(acc, v) ==
    IF acc.kind = "TypeError" \/ v.kind = "TypeError" THEN RetThrow
    ELSE IF acc.kind # "number" \/ v.kind # "number" THEN RetNaN
    ELSE RetNum(acc.num + v.num)

----------------------------------------------------------------------------
(* The engine: class GameOfLife3D *)

\* Mutant of createEmptyGrid: the innermost arrays are one entry short.
createEmptyGrid_short(cfg) ==
    [x \in Idx(cfg.gridSize) |-> [y \in Idx(cfg.gridSize) |-> [z \in Idx(cfg.gridSize - 1) |-> 0]]]

\* Array(gridSize).fill(null).map(() => Array(gridSize).fill(null).map(() =>
\*   Array(gridSize).fill(0))): every row is a fresh array.
createEmptyGrid(cfg) ==
    [x \in Idx(cfg.gridSize) |-> [y \in Idx(cfg.gridSize) |-> [z \in Idx(cfg.gridSize) |-> 0]]]

\* Mutant of wrap: nx = nx % gridSize, which is negative at the lower face.
wrap_noBias(nx, gridSize) == JsRem(nx, gridSize)

\* nx = (nx + gridSize) % gridSize
wrap(nx, gridSize) == JsRem(nx + gridSize, gridSize)

\* Mutant of outOfBounds: the upper bounds are tested with > instead of >=.
outOfBounds_offByOne(nx, ny, nz, gridSize) ==
    \/ nx < 0 \/ nx > gridSize
    \/ ny < 0 \/ ny > gridSize
    \/ nz < 0 \/ nz > gridSize

\* nx < 0 || nx >= gridSize || ny < 0 || ny >= gridSize || nz < 0 || nz >= gridSize
outOfBounds(nx, ny, nz, gridSize) ==
    \/ nx < 0 \/ nx >= gridSize
    \/ ny < 0 \/ ny >= gridSize
    \/ nz < 0 \/ nz >= gridSize

\* Mutant of countNeighborsBody: the centre is not skipped.
countNeighborsBody_countsCentre(cfg, grid, x, y, z, dx, dy, dz, count) ==
    IF count.kind = "TypeError" THEN count
    ELSE IF cfg.periodicBoundaries
    THEN JsAdd(count, ReadCell(grid, wrap(x + dx, cfg.gridSize), wrap(y + dy, cfg.gridSize),
                               wrap(z + dz, cfg.gridSize)))
    ELSE IF outOfBounds(x + dx, y + dy, z + dz, cfg.gridSize) THEN count
    ELSE JsAdd(count, ReadCell(grid, x + dx, y + dy, z + dz))

\* Mutant of countNeighborsBody: an offset that wraps onto the cell itself
\* is skipped like the centre.
countNeighborsBody_skipsSelf(cfg, grid, x, y, z, dx, dy, dz, count) ==
    IF count.kind = "TypeError" THEN count
    ELSE IF dx = 0 /\ dy = 0 /\ dz = 0 THEN count
    ELSE IF cfg.periodicBoundaries
    THEN IF /\ wrap(x + dx, cfg.gridSize) = x
            /\ wrap(y + dy, cfg.gridSize) = y
            /\ wrap(z + dz, cfg.gridSize) = z
         THEN count
         ELSE JsAdd(count, ReadCell(grid, wrap(x + dx, cfg.gridSize),
                                    wrap(y + dy, cfg.gridSize), wrap(z + dz, cfg.gridSize)))
    ELSE IF outOfBounds(x + dx, y + dy, z + dz, cfg.gridSize) THEN count
    ELSE JsAdd(count, ReadCell(grid, x + dx, y + dy, z + dz))

\* Mutant of countNeighborsBody: the bounds are checked under either policy.
countNeighborsBody_alwaysClips(cfg, grid, x, y, z, dx, dy, dz, count) ==
    IF count.kind = "TypeError" THEN count
    ELSE IF dx = 0 /\ dy = 0 /\ dz = 0 THEN count
    ELSE IF outOfBounds(x + dx, y + dy, z + dz, cfg.gridSize) THEN count
    ELSE JsAdd(count, ReadCell(grid, x + dx, y + dy, z + dz))

\* The body of countNeighbors' innermost loop for the offset (dx, dy, dz),
\* count being the sum so far.
countNeighborsBody(cfg, grid, x, y, z, dx, dy, dz, count) ==
    IF count.kind = "TypeError" THEN count
    ELSE IF dx = 0 /\ dy = 0 /\ dz = 0 THEN count
    ELSE IF cfg.periodicBoundaries
    THEN JsAdd(count, ReadCell(grid, wrap(x + dx, cfg.gridSize), wrap(y + dy, cfg.gridSize),
                               wrap(z + dz, cfg.gridSize)))
    ELSE IF outOfBounds(x + dx, y + dy, z + dz, cfg.gridSize) THEN count
    ELSE JsAdd(count, ReadCell(grid, x + dx, y + dy, z + dz))

\* for (let dz = -1; dz <= 1; dz++)
RECURSIVE countNeighborsDz(_, _, _, _, _, _, _, _, _)
countNeighborsDz(cfg, grid, x, y, z, dx, dy, dz, count) ==
    IF count.kind = "TypeError" \/ dz > 1 THEN count
    ELSE countNeighborsDz(cfg, grid, x, y, z, dx, dy, dz + 1,
                          countNeighborsBody(cfg, grid, x, y, z, dx, dy, dz, count))

\* for (let dy = -1; dy <= 1; dy++)
RECURSIVE countNeighborsDy(_, _, _, _, _, _, _, _)
countNeighborsDy(cfg, grid, x, y, z, dx, dy, count) ==
    IF count.kind = "TypeError" \/ dy > 1 THEN count
    ELSE countNeighborsDy(cfg, grid, x, y, z, dx, dy + 1,
                          countNeighborsDz(cfg, grid, x, y, z, dx, dy, -1, count))

\* for (let dx = -1; dx <= 1; dx++)
RECURSIVE countNeighborsDx(_, _, _, _, _, _, _)
countNeighborsDx(cfg, grid, x, y, z, dx, count) ==
    IF count.kind = "TypeError" \/ dx > 1 THEN count
    ELSE countNeighborsDx(cfg, grid, x, y, z, dx + 1,
                          countNeighborsDy(cfg, grid, x, y, z, dx, -1, count))

countNeighbors(cfg, grid, x, y, z) ==
    countNeighborsDx(cfg, grid, x, y, z, -1, RetNum(0))

\* Mutants of applyCellRule: an exclusive upper survival bound; birth on at
\* least, and on at most, birthRule neighbours; survival without the lower
\* bound.
applyCellRule_strictMax(cfg, isCurrentlyAlive, neighborCount) ==
    IF isCurrentlyAlive
    THEN neighborCount >= cfg.survivalMin /\ neighborCount < cfg.survivalMax
    ELSE neighborCount = cfg.birthRule

applyCellRule_birthAtLeast(cfg, isCurrentlyAlive, neighborCount) ==
    IF isCurrentlyAlive
    THEN neighborCount >= cfg.survivalMin /\ neighborCount <= cfg.survivalMax
    ELSE neighborCount >= cfg.birthRule

applyCellRule_noSurvivalMin(cfg, isCurrentlyAlive, neighborCount) ==
    IF isCurrentlyAlive
    THEN neighborCount <= cfg.survivalMax
    ELSE neighborCount = cfg.birthRule

applyCellRule_birthAtMost(cfg, isCurrentlyAlive, neighborCount) ==
    IF isCurrentlyAlive
    THEN neighborCount >= cfg.survivalMin /\ neighborCount <= cfg.survivalMax
    ELSE neighborCount <= cfg.birthRule

\* Mutant of applyCellRule: an inverted survival range is read as the range
\* between its bounds.
applyCellRule_ordersRange(cfg, isCurrentlyAlive, neighborCount) ==
    IF isCurrentlyAlive
    THEN \/ neighborCount >= cfg.survivalMin /\ neighborCount <= cfg.survivalMax
         \/ neighborCount >= cfg.survivalMax /\ neighborCount <= cfg.survivalMin
    ELSE neighborCount = cfg.birthRule

applyCellRule(cfg, isCurrentlyAlive, neighborCount) ==
    IF isCurrentlyAlive
    THEN neighborCount >= cfg.survivalMin /\ neighborCount <= cfg.survivalMax
    ELSE neighborCount = cfg.birthRule

\* grid[x][y][z] = value, on the grid object itself: a missing row throws,
\* a missing last index extends the row.
WriteCell(grid, x, y, z, value) ==
    IF z \in DOMAIN grid[x][y]
    THEN [grid EXCEPT ![x][y][z] = value]
    ELSE [grid EXCEPT ![x][y] = [i \in (DOMAIN @) \cup {z} |-> IF i = z THEN value ELSE @[i]]]

CanWriteCell(grid, x, y) == x \in DOMAIN grid /\ y \in DOMAIN grid[x]

\* The result of an operation: the heap it leaves and what it returns.
Outcome(h, r) == [heap |-> h, ret |-> r]

\* Mutant of stepBody: the next state is written into currentGrid.
stepBody_writeInput(o, cfg, currentGrid, newGrid, x, y, z, cell, neighbors) ==
    IF o.ret.kind = "TypeError" THEN o
    ELSE IF neighbors.kind = "TypeError" \/ cell.kind = "TypeError" THEN Outcome(o.heap, RetThrow)
    ELSE Outcome([o.heap EXCEPT ![currentGrid] =
                     WriteCell(@, x, y, z,
                               IF /\ neighbors.kind = "number"
                                  /\ applyCellRule(cfg, cell.kind = "number" /\ cell.num = 1,
                                                   neighbors.num)
                               THEN 1 ELSE 0)],
                 o.ret)

\* The body of step's innermost loop for the cell (x, y, z): currentGrid and
\* newGrid are references into the heap of o, which holds the writes made
\* so far.
stepBody(o, cfg, currentGrid, newGrid, x, y, z, cell, neighbors) ==
    IF o.ret.kind = "TypeError" THEN o
    ELSE IF neighbors.kind = "TypeError" \/ cell.kind = "TypeError" THEN Outcome(o.heap, RetThrow)
    ELSE Outcome([o.heap EXCEPT ![newGrid] =
                     WriteCell(@, x, y, z,
                               IF /\ neighbors.kind = "number"
                                  /\ applyCellRule(cfg, cell.kind = "number" /\ cell.num = 1,
                                                   neighbors.num)
                               THEN 1 ELSE 0)],
                 o.ret)

\* for (let z = 0; z < gridSize; z++)
RECURSIVE stepZ(_, _, _, _, _, _, _)
stepZ(o, cfg, currentGrid, newGrid, x, y, z) ==
    IF o.ret.kind = "TypeError" \/ z >= cfg.gridSize THEN o
    ELSE stepZ(stepBody(o, cfg, currentGrid, newGrid, x, y, z,
                        ReadCell(o.heap[currentGrid], x, y, z),
                        countNeighbors(cfg, o.heap[currentGrid], x, y, z)),
               cfg, currentGrid, newGrid, x, y, z + 1)

\* for (let y = 0; y < gridSize; y++)
RECURSIVE stepY(_, _, _, _, _, _)
stepY(o, cfg, currentGrid, newGrid, x, y) ==
    IF o.ret.kind = "TypeError" \/ y >= cfg.gridSize THEN o
    ELSE stepY(stepZ(o, cfg, currentGrid, newGrid, x, y, 0), cfg, currentGrid, newGrid, x, y + 1)

\* for (let x = 0; x < gridSize; x++)
RECURSIVE stepX(_, _, _, _, _)
stepX(o, cfg, currentGrid, newGrid, x) ==
    IF o.ret.kind = "TypeError" \/ x >= cfg.gridSize THEN o
    ELSE stepX(stepY(o, cfg, currentGrid, newGrid, x, 0), cfg, currentGrid, newGrid, x + 1)

\* Mutant of step: const newGrid = currentGrid, an update in place.
step_inPlace(h, cfg, currentGrid) ==
    stepX(Outcome(h, RetGrid(currentGrid)), cfg, currentGrid, currentGrid, 0)

\* const newGrid = this.createEmptyGrid(); the loops; return newGrid
step(h, cfg, currentGrid) ==
    stepX(Outcome(Append(h, createEmptyGrid(cfg)), RetGrid(Len(h) + 1)), cfg, currentGrid, Len(h) + 1, 0)

\* count += grid[x][y][z], for every cell of the configured cube.
RECURSIVE countLivingCellsZ(_, _, _, _, _, _)
countLivingCellsZ(cfg, grid, x, y, z, count) ==
    IF count.kind = "TypeError" \/ z >= cfg.gridSize THEN count
    ELSE countLivingCellsZ(cfg, grid, x, y, z + 1, JsAdd(count, ReadCell(grid, x, y, z)))

RECURSIVE countLivingCellsY(_, _, _, _, _)
countLivingCellsY(cfg, grid, x, y, count) ==
    IF count.kind = "TypeError" \/ y >= cfg.gridSize THEN count
    ELSE countLivingCellsY(cfg, grid, x, y + 1, countLivingCellsZ(cfg, grid, x, y, 0, count))

RECURSIVE countLivingCellsX(_, _, _, _)
countLivingCellsX(cfg, grid, x, count) ==
    IF count.kind = "TypeError" \/ x >= cfg.gridSize THEN count
    ELSE countLivingCellsX(cfg, grid, x + 1, countLivingCellsY(cfg, grid, x, 0, count))

countLivingCells(cfg, grid) == countLivingCellsX(cfg, grid, 0, RetNum(0))

\* if (grid1[x][y][z] !== grid2[x][y][z]) return false, for every cell of the
\* configured cube; eq is the result so far, TRUE while no difference is met.
gridsEqualBody(grid1, grid2, x, y, z, a, b) ==
    IF a.kind = "TypeError" \/ b.kind = "TypeError" THEN RetThrow
    ELSE RetBool(a = b)

RECURSIVE gridsEqualZ(_, _, _, _, _, _, _)
gridsEqualZ(cfg, grid1, grid2, x, y, z, eq) ==
    IF eq # RetBool(TRUE) \/ z >= cfg.gridSize THEN eq
    ELSE gridsEqualZ(cfg, grid1, grid2, x, y, z + 1,
                     gridsEqualBody(grid1, grid2, x, y, z,
                                    ReadCell(grid1, x, y, z), ReadCell(grid2, x, y, z)))

RECURSIVE gridsEqualY(_, _, _, _, _, _)
gridsEqualY(cfg, grid1, grid2, x, y, eq) ==
    IF eq # RetBool(TRUE) \/ y >= cfg.gridSize THEN eq
    ELSE gridsEqualY(cfg, grid1, grid2, x, y + 1, gridsEqualZ(cfg, grid1, grid2, x, y, 0, eq))

RECURSIVE gridsEqualX(_, _, _, _, _)
gridsEqualX(cfg, grid1, grid2, x, eq) ==
    IF eq # RetBool(TRUE) \/ x >= cfg.gridSize THEN eq
    ELSE gridsEqualX(cfg, grid1, grid2, x + 1, gridsEqualY(cfg, grid1, grid2, x, 0, eq))

gridsEqual(cfg, grid1, grid2) == gridsEqualX(cfg, grid1, grid2, 0, RetBool(TRUE))

\* newGrid[x][y][z] = grid[x][y][z], for every cell of the configured cube;
\* an undefined value read is stored as a hole.
copyGridBody(o, grid, newGrid, x, y, z, v) ==
    IF v.kind = "TypeError" THEN Outcome(o.heap, RetThrow)
    ELSE IF v.kind # "number"
    THEN Outcome([o.heap EXCEPT ![newGrid][x][y] = [i \in (DOMAIN @) \ {z} |-> @[i]]], o.ret)
    ELSE Outcome([o.heap EXCEPT ![newGrid] = WriteCell(@, x, y, z, v.num)], o.ret)

RECURSIVE copyGridZ(_, _, _, _, _, _, _)
copyGridZ(o, cfg, grid, newGrid, x, y, z) ==
    IF o.ret.kind = "TypeError" \/ z >= cfg.gridSize THEN o
    ELSE copyGridZ(copyGridBody(o, grid, newGrid, x, y, z, ReadCell(o.heap[grid], x, y, z)),
                   cfg, grid, newGrid, x, y, z + 1)

RECURSIVE copyGridY(_, _, _, _, _, _)
copyGridY(o, cfg, grid, newGrid, x, y) ==
    IF o.ret.kind = "TypeError" \/ y >= cfg.gridSize THEN o
    ELSE copyGridY(copyGridZ(o, cfg, grid, newGrid, x, y, 0), cfg, grid, newGrid, x, y + 1)

RECURSIVE copyGridX(_, _, _, _, _)
copyGridX(o, cfg, grid, newGrid, x) ==
    IF o.ret.kind = "TypeError" \/ x >= cfg.gridSize THEN o
    ELSE copyGridX(copyGridY(o, cfg, grid, newGrid, x, 0), cfg, grid, newGrid, x + 1)

\* Mutant of copyGrid: the grid itself is returned.
copyGrid_alias(h, cfg, grid) == Outcome(h, RetGrid(grid))

\* const newGrid = this.createEmptyGrid(); the loops; return newGrid
copyGrid(h, cfg, grid) ==
    copyGridX(Outcome(Append(h, createEmptyGrid(cfg)), RetGrid(Len(h) + 1)), cfg, grid, Len(h) + 1, 0)

\* Mutant of inBounds: the upper bounds are inclusive.
inBounds_inclusive(x, y, z, gridSize) ==
    /\ x >= 0 /\ x <= gridSize
    /\ y >= 0 /\ y <= gridSize
    /\ z >= 0 /\ z <= gridSize

\* x >= 0 && x < gridSize && y >= 0 && y < gridSize && z >= 0 && z < gridSize
inBounds(x, y, z, gridSize) ==
    /\ x >= 0 /\ x < gridSize
    /\ y >= 0 /\ y < gridSize
    /\ z >= 0 /\ z < gridSize

\* if (in bounds) grid[x][y][z] = value
setCell(h, cfg, grid, x, y, z, value) ==
    IF ~inBounds(x, y, z, cfg.gridSize) THEN Outcome(h, RetVoid)
    ELSE IF ~CanWriteCell(h[grid], x, y) THEN Outcome(h, RetThrow)
    ELSE Outcome([h EXCEPT ![grid] = WriteCell(@, x, y, z, value)], RetVoid)

\* Mutant of getCell: the lower bounds are not tested.
getCell_noLowerBound(cfg, grid, x, y, z) ==
    IF x >= cfg.gridSize \/ y >= cfg.gridSize \/ z >= cfg.gridSize THEN RetNum(0)
    ELSE ReadCell(grid, x, y, z)

\* if (in bounds) return grid[x][y][z]; return 0
getCell(cfg, grid, x, y, z) ==
    IF ~inBounds(x, y, z, cfg.gridSize) THEN RetNum(0)
    ELSE ReadCell(grid, x, y, z)

\* The fields of GameOfLife3DConfig.
Fields == {"gridSize", "birthRule", "survivalMin", "survivalMax", "periodicBoundaries"}

\* { ...a, ...b }: a new object with the fields of a, overwritten by those of b.
Spread(a, b) ==
    [f \in DOMAIN a \cup DOMAIN b |-> IF f \in DOMAIN b THEN b[f] ELSE a[f]]

\* An object without fields.
EmptyObject == [f \in {} |-> 0]

\* Mutant of updateConfig: { ...newConfig, ...this.config }.
updateConfig_reversed(o, s, newConfig) ==
    [objs |-> Append(o, Spread(newConfig, o[s])), self |-> Len(o) + 1]

\* this.config = { ...this.config, ...newConfig }: the new object is
\* allocated and this.config made to refer to it.
updateConfig(o, s, newConfig) ==
    [objs |-> Append(o, Spread(o[s], newConfig)), self |-> Len(o) + 1]

\* Mutant of getConfig: return this.config.
getConfig_alias(o, s) == [objs |-> o, ref |-> s]

\* return { ...this.config }: the new object is allocated and returned.
getConfig(o, s) ==
    [objs |-> Append(o, Spread(o[s], EmptyObject)), ref |-> Len(o) + 1]

\* The position of cell (x, y, z) in the order the triple loops over a cube
\* of edge n visit the cells, from 1.
Pos(n, x, y, z) == x * n * n + y * n + z + 1

\* grid[x][y][z] = Math.random() < density ? 1 : 0, for every cell of the
\* configured cube: draws[k] is what the k-th call of Math.random() returns,
\* in the unit of density.  The grid being filled is the last of h; a grid
\* without cells has none to fill.
RECURSIVE createRandomGridZ(_, _, _, _, _, _, _)

\* Mutant of createRandomGridZ: Math.random() <= density.
createRandomGridZ_atMost(h, cfg, density, draws, x, y, z) ==
    IF z >= cfg.gridSize \/ h[Len(h)] = << >> THEN h
    ELSE createRandomGridZ(
             [h EXCEPT ![Len(h)] = WriteCell(@, x, y, z,
                 IF draws[Pos(cfg.gridSize, x, y, z)] <= density THEN 1 ELSE 0)],
             cfg, density, draws, x, y, z + 1)

createRandomGridZ(h, cfg, density, draws, x, y, z) ==
    IF z >= cfg.gridSize \/ h[Len(h)] = << >> THEN h
    ELSE createRandomGridZ(
             [h EXCEPT ![Len(h)] = WriteCell(@, x, y, z,
                 IF draws[Pos(cfg.gridSize, x, y, z)] < density THEN 1 ELSE 0)],
             cfg, density, draws, x, y, z + 1)

RECURSIVE createRandomGridY(_, _, _, _, _, _)
createRandomGridY(h, cfg, density, draws, x, y) ==
    IF y >= cfg.gridSize \/ h[Len(h)] = << >> THEN h
    ELSE createRandomGridY(createRandomGridZ(h, cfg, density, draws, x, y, 0),
                           cfg, density, draws, x, y + 1)

RECURSIVE createRandomGridX(_, _, _, _, _)
createRandomGridX(h, cfg, density, draws, x) ==
    IF x >= cfg.gridSize \/ h[Len(h)] = << >> THEN h
    ELSE createRandomGridX(createRandomGridY(h, cfg, density, draws, x, 0),
                           cfg, density, draws, x + 1)

\* const grid = this.createEmptyGrid(); the loops; return grid
createRandomGrid(h, cfg, density, draws) ==
    Outcome(createRandomGridX(Append(h, createEmptyGrid(cfg)), cfg, density, draws, 0),
            RetGrid(Len(h) + 1))

----------------------------------------------------------------------------
(* The component GameOfLife3D of src/unnamed/part_002 *)

\* useState(20) for gridSize.
InitialGridSize == 20

\* useState(0.08) for initialDensity, in hundredths.
InitialDensity == 8

\* useState(300) for speed, in milliseconds.
InitialSpeed == 300

\* min and max of the three rule sliders.
SliderMin == 1
SliderMax == 26

\* The useState values of the first render, and the simulationInterval ref
\* (0 for null).  aliveCells holds a JavaScript value; visualGrid, a cube of
\* objects or [], is held by its edge.
UseState ==
    [gridSize |-> InitialGridSize, isRunning |-> FALSE, generation |-> 0,
     aliveCells |-> RetNum(0), logicGrid |-> << >>, visualGrid |-> 0,
     isUserInteracting |-> FALSE,
     initialDensity |-> InitialDensity, speed |-> InitialSpeed,
     birthRule |-> 4, survivalMin |-> 4, survivalMax |-> 5,
     showSettings |-> FALSE,
     simulationInterval |-> 0]

\* The config of the effect that constructs the engine.
GameEngine(u) ==
    [gridSize |-> u.gridSize, birthRule |-> u.birthRule, survivalMin |-> u.survivalMin,
     survivalMax |-> u.survivalMax, periodicBoundaries |-> TRUE]

\* The effect runs when one of its dependencies changed: gameEngine.current
\* is a new engine then, and the engine it was otherwise.
EngineEffect(o, u, u2) ==
    IF <<u.gridSize, u.birthRule, u.survivalMin, u.survivalMax>>
           # <<u2.gridSize, u2.birthRule, u2.survivalMin, u2.survivalMax>>
    THEN <<GameEngine(u2)>>
    ELSE o

\* clearInterval(id)
clearInterval(ts, id) == {t \in ts : t.id # id}

\* setInterval(() => { stepSimulation(); }, delay): a new interval, and its
\* id.  The callback calls the stepSimulation of the render it was made in,
\* whose gridSize is the one given.
setInterval(ts, gridSize, delay) ==
    LET id == CHOOSE i \in 1 .. (Cardinality(ts) + 1) : \A t \in ts : t.id # i
    IN  [timers |-> ts \cup {[id |-> id, gridSize |-> gridSize, delay |-> delay]}, id |-> id]

\* The hooks that are set by resets, by steps and by the orbit controls.  The
\* other useState values are set by the sliders and the settings buttons
\* only, in their event handlers.
Hooks ==
    {"isRunning", "generation", "aliveCells", "logicGrid", "visualGrid", "isUserInteracting"}

\* An update React holds in the queue of a hook: setX(value) is the action
\* "set", setX(fn) the action "updater", and "evaluated" an updater React
\* has run when it was dispatched, with the state it returned.  Updates dispatched in an event
\* handler have the lane "sync" and are rendered before the event ends;
\* those dispatched in an effect or in a timer callback have the lane
\* "default" and are rendered in a later task.
Update(lane, action, value) == [lane |-> lane, action |-> action, value |-> value]

\* No update in any queue.
NoUpdates == [h \in Hooks |-> << >>]

\* The state of the hooks in the values u of a render.
Rendered(u) ==
    [isRunning |-> u.isRunning, generation |-> u.generation,
     aliveCells |-> u.aliveCells, logicGrid |-> u.logicGrid,
     visualGrid |-> u.visualGrid, isUserInteracting |-> u.isUserInteracting]

\* The component, the browser's intervals and React's queues, as a handler
\* or an effect sees and leaves them.
Component(u, ts, q, b) == [ui |-> u, timers |-> ts, queue |-> q, base |-> b]

\* No update is waiting to be rendered.
Idle(q) == \A h \in Hooks : q[h] = << >>

\* An update waits for the render of a later task.
Pending(q) == ~ \A h \in Hooks : \A i \in DOMAIN q[h] : q[h][i].lane # "default"

\* The steps that wait in the queues: the updaters of logicGrid still to
\* run, and the updaters of generation that those already run have queued.
Steps(q) ==
    Cardinality({i \in DOMAIN q.logicGrid : q.logicGrid[i].action = "updater"})
    + Cardinality({i \in DOMAIN q.generation : q.generation[i].action = "updater"})

\* The grid an engine method returned.
Returned(out) == out.heap[out.ret.num]

\* resetSimulation(randomize), called in an event handler or in an effect,
\* which is what lane says; draws is what Math.random() returns, in
\* hundredths.  The interval is cleared at once, the new state is queued,
\* setIsUserInteracting(false) first.
\* The visual grid has the edge gridSize of the render the callback was made
\* in, which is the gridSize of the engine too: the loop that copies the
\* live cells of logic into it reads cells that exist.
resetSimulation(s, cfg, randomize, draws, lane) ==
    LET queued(logic) ==
            [ui |-> [s.ui EXCEPT !.simulationInterval = 0],
             timers |-> IF s.ui.simulationInterval # 0
                        THEN clearInterval(s.timers, s.ui.simulationInterval)
                        ELSE s.timers,
             queue |-> [s.queue EXCEPT
                           !.isUserInteracting = Append(@, Update(lane, "set", FALSE)),
                           !.isRunning = Append(@, Update(lane, "set", FALSE)),
                           !.generation = Append(@, Update(lane, "set", 0)),
                           !.aliveCells =
                               IF randomize
                               THEN @ \o <<Update(lane, "set", RetNum(0)),
                                           Update(lane, "set", countLivingCells(cfg, logic))>>
                               ELSE Append(@, Update(lane, "set", RetNum(0))),
                           !.logicGrid = Append(@, Update(lane, "set", logic)),
                           !.visualGrid = Append(@, Update(lane, "set", s.ui.gridSize))],
             base |-> s.base]
    IN  queued(IF randomize
               THEN Returned(createRandomGrid(<< >>, cfg, s.ui.initialDensity, draws))
               ELSE createEmptyGrid(cfg))

\* grid[x][y] is an array for every x and y below gridSize: the loops of the
\* updater of visualGrid read grid[x][y][z] without a TypeError.
Reads(grid, gridSize) ==
    \A x \in Idx(gridSize) : /\ x \in DOMAIN grid
                             /\ \A y \in Idx(gridSize) : y \in DOMAIN grid[x]

\* currentLogicGrid => { ... }, the updater stepSimulation passes to
\* setLogicGrid, gridSize being the one of the render stepSimulation was
\* made in: the engine steps the grid and counts the result, the updater
\* calls setAliveCells, setGeneration and setVisualGrid, and returns the new
\* grid.  It throws when the engine does.  reads says whether the updater it
\* passes to setVisualGrid can read the two logic grids.
updater(currentLogicGrid, cfg, gridSize) ==
    LET returned(out) ==
            IF out.ret.kind # "grid"
            THEN [threw |-> TRUE, newLogicGrid |-> currentLogicGrid,
                  newAliveCells |-> RetNum(0), reads |-> FALSE]
            ELSE [threw |-> FALSE, newLogicGrid |-> Returned(out),
                  newAliveCells |-> countLivingCells(cfg, Returned(out)),
                  reads |-> Reads(currentLogicGrid, gridSize) /\ Reads(Returned(out), gridSize)]
    IN  returned(step(<<currentLogicGrid>>, cfg, 1))

\* currentVisualGrid => { ... }, the updater the updater of logicGrid passes
\* to setVisualGrid: it writes the age of every cell below gridSize and
\* returns a copy of the same edge.  It throws when a cell it reads or
\* writes is not there.
visualUpdater(currentVisualGrid, update) ==
    [threw |-> ~update.reads \/ update.gridSize > currentVisualGrid,
     newVisualGrid |-> currentVisualGrid]

\* stepSimulation(): setLogicGrid(updater), cfg being the engine in
\* gameEngine.current.  While the component's fiber or its alternate has
\* work, React queues the updater and runs it when it renders.  While
\* neither has, React runs the updater when it is dispatched, on the grid
\* rendered last: setAliveCells, setGeneration and setVisualGrid are then
\* calls of the handler or the callback, in its lane, and the grid the
\* updater returned is queued as evaluated.  An updater that throws there is
\* queued to run, and to throw, in the render.
stepSimulation(s, cfg, gridSize, lane, marked) ==
    LET queued == [s EXCEPT !.queue.logicGrid = Append(@, Update(lane, "updater", gridSize))]
        evaluated(run) ==
            IF run.threw THEN queued
            ELSE [s EXCEPT
                     !.queue.aliveCells = Append(@, Update(lane, "set", run.newAliveCells)),
                     !.queue.generation = Append(@, Update(lane, "updater", << >>)),
                     !.queue.visualGrid =
                         Append(@, Update(lane, "updater",
                                          [gridSize |-> gridSize, reads |-> run.reads])),
                     !.queue.logicGrid = Append(@, Update(lane, "evaluated", run.newLogicGrid))]
    IN  IF marked THEN queued ELSE evaluated(updater(s.ui.logicGrid, cfg, gridSize))

\* toggleSimulation(): isRunning is the value of the last render.
toggleSimulation(s) ==
    IF s.ui.isRunning
    THEN [s EXCEPT !.ui.simulationInterval = 0,
                   !.timers = IF s.ui.simulationInterval # 0
                              THEN clearInterval(@, s.ui.simulationInterval)
                              ELSE @,
                   !.queue.isRunning = Append(@, Update("sync", "set", FALSE))]
    ELSE LET made == setInterval(s.timers, s.ui.gridSize, s.ui.speed)
         IN  [s EXCEPT !.ui.simulationInterval = made.id,
                       !.timers = made.timers,
                       !.queue.isRunning = Append(@, Update("sync", "set", TRUE))]

\* The effect "Update simulation speed when running": isRunning and speed
\* are those of the render the effect belongs to.
speedEffect(s) ==
    IF s.ui.isRunning /\ s.ui.simulationInterval # 0
    THEN LET made == setInterval(clearInterval(s.timers, s.ui.simulationInterval),
                                 s.ui.gridSize, s.ui.speed)
         IN  [s EXCEPT !.ui.simulationInterval = made.id, !.timers = made.timers]
    ELSE s

\* The cleanup of the effect "Cleanup on unmount": the interval the ref
\* holds is cleared, the ref is left as it is.
cleanup(ts, id) == IF id # 0 THEN clearInterval(ts, id) ELSE ts

\* onChange of the birth rule slider.
birthRuleChange(u, val) == [u EXCEPT !.birthRule = val]

\* Mutant of survivalMinChange: the maximum is left where it was.
survivalMinChange_unpaired(u, val) == [u EXCEPT !.survivalMin = val]

\* onChange of the survival minimum slider.
survivalMinChange(u, val) ==
    [u EXCEPT !.survivalMin = val,
              !.survivalMax = IF val > u.survivalMax THEN val ELSE @]

\* onChange of the survival maximum slider.
survivalMaxChange(u, val) ==
    [u EXCEPT !.survivalMax = val,
              !.survivalMin = IF val < u.survivalMin THEN val ELSE @]

\* What React has made of the queue of one hook while it renders: the state
\* so far, the updates it keeps for a later render with the state the first
\* of them applies to, the updaters of logicGrid it has run, the count the
\* last of them passed to setAliveCells, the updaters they passed to
\* setVisualGrid, and whether one threw.
Reduced(state) ==
    [state |-> state, baseState |-> state, baseQueue |-> << >>,
     ran |-> 0, newAliveCells |-> RetNum(0), visual |-> << >>, threw |-> FALSE]

\* React's reducer for the queue of a hook, in a render of renderLanes.  The
\* render of an event ("sync") skips the updates of the lane "default"; once
\* an update is skipped, it and every update behind it stay in the queue,
\* and the later render applies them again in the order they were
\* dispatched.  An update that stays is never skipped again.
RECURSIVE updateReducer(_, _, _, _, _)
updateReducer(hook, acc, updates, renderLanes, cfg) ==
    IF updates = << >> \/ acc.threw THEN acc
    ELSE LET update == Head(updates)
             kept == IF acc.baseQueue = << >> THEN << >>
                     ELSE Append(acc.baseQueue, [update EXCEPT !.lane = "sync"])
             reduced(run) ==
                 [acc EXCEPT !.state = run.newLogicGrid,
                             !.baseQueue = kept,
                             !.ran = @ + 1,
                             !.newAliveCells = run.newAliveCells,
                             !.visual = Append(@, Update(renderLanes, "updater",
                                                  [gridSize |-> update.value,
                                                   reads |-> run.reads])),
                             !.threw = run.threw]
             visual(run) ==
                 [acc EXCEPT !.state = run.newVisualGrid,
                             !.baseQueue = kept,
                             !.threw = run.threw]
         IN  IF renderLanes = "sync" /\ update.lane = "default"
             THEN updateReducer(hook,
                      [acc EXCEPT !.baseState = IF acc.baseQueue = << >> THEN acc.state ELSE @,
                                  !.baseQueue = Append(@, update)],
                      Tail(updates), renderLanes, cfg)
             ELSE IF update.action # "updater"
             THEN updateReducer(hook, [acc EXCEPT !.state = update.value, !.baseQueue = kept],
                                Tail(updates), renderLanes, cfg)
             ELSE IF hook = "generation"
             THEN updateReducer(hook, [acc EXCEPT !.state = @ + 1, !.baseQueue = kept],
                                Tail(updates), renderLanes, cfg)
             ELSE IF hook = "visualGrid"
             THEN updateReducer(hook, visual(visualUpdater(acc.state, update.value)),
                                Tail(updates), renderLanes, cfg)
             ELSE updateReducer(hook, reduced(updater(acc.state, cfg, update.value)),
                                Tail(updates), renderLanes, cfg)

\* The hooks of the component that have a queue, in the order of their
\* useState calls.
HookOrder ==
    <<"isRunning", "generation", "aliveCells", "logicGrid", "visualGrid", "isUserInteracting">>

\* The component function runs: the hooks from the k-th on reduce their
\* queues, in order.  dispatched are the updates the hooks before have
\* dispatched to visualGrid in this render, which it finds at the end of
\* its queue.
RECURSIVE renderWithHooks(_, _, _, _, _)
renderWithHooks(s, k, renderLanes, cfg, dispatched) ==
    IF k > Len(HookOrder) THEN << >>
    ELSE LET next(hook) == <<hook>> \o renderWithHooks(s, k + 1, renderLanes, cfg, hook.visual)
         IN  next(updateReducer(HookOrder[k], Reduced(s.base[HookOrder[k]]),
                                IF HookOrder[k] = "visualGrid"
                                THEN s.queue[HookOrder[k]] \o dispatched
                                ELSE s.queue[HookOrder[k]],
                                renderLanes, cfg))

\* A render of the component in renderLanes, with the engine cfg in
\* gameEngine.current.  The hooks reduce their queues; the calls of
\* setAliveCells and setGeneration that the updaters of logicGrid made while
\* they ran are applied on top of what the queues gave, and they stay in the
\* state a later render starts from only where no update was skipped.  The
\* render throws when an updater does.
render(s, renderLanes, cfg) ==
    LET Base(r, v) == IF r.baseQueue = << >> THEN v ELSE r.baseState
        rerendered(running, gen, alive, logic, visual, interacting, generation, aliveCells) ==
            [ui |-> [s.ui EXCEPT !.isRunning = running.state,
                                 !.generation = generation,
                                 !.aliveCells = aliveCells,
                                 !.logicGrid = logic.state,
                                 !.visualGrid = visual.state,
                                 !.isUserInteracting = interacting.state],
             timers |-> s.timers,
             queue |-> [isRunning |-> running.baseQueue, generation |-> gen.baseQueue,
                        aliveCells |-> alive.baseQueue, logicGrid |-> logic.baseQueue,
                        visualGrid |-> visual.baseQueue,
                        isUserInteracting |-> interacting.baseQueue],
             base |-> [isRunning |-> Base(running, running.state),
                       generation |-> Base(gen, generation),
                       aliveCells |-> Base(alive, aliveCells),
                       logicGrid |-> Base(logic, logic.state),
                       visualGrid |-> Base(visual, visual.state),
                       isUserInteracting |-> Base(interacting, interacting.state)],
             threw |-> logic.threw \/ visual.threw]
        rendered(hooks) ==
            rerendered(hooks[1], hooks[2], hooks[3], hooks[4], hooks[5], hooks[6],
                       hooks[2].state + hooks[4].ran,
                       IF hooks[4].ran > 0 THEN hooks[4].newAliveCells ELSE hooks[3].state)
    IN  rendered(renderWithHooks(s, 1, renderLanes, cfg, << >>))

\* What the calls of Math.random() after the first numCalls return.
Later(draws, numCalls) ==
    [k \in 1 .. (Len(draws) - numCalls) |-> draws[k + numCalls]]

\* The effects of a render whose values are those of s, the render before
\* it having had the values prev, once the engine effect has left cfg: the
\* effect on resetSimulation, which is a new callback when gridSize or
\* initialDensity changed, the speed effect, which also depends on
\* isRunning and on stepSimulation, a new callback when gridSize changed,
\* and the effect on gridSize and resetSimulation, in that order.
effects(prev, s, cfg, draws) ==
    LET newReset == prev.gridSize # s.ui.gridSize \/ prev.initialDensity # s.ui.initialDensity
        newSpeed == \/ prev.speed # s.ui.speed
                    \/ prev.isRunning # s.ui.isRunning
                    \/ prev.gridSize # s.ui.gridSize
        speed(s1) == IF newSpeed THEN speedEffect(s1) ELSE s1
    IN  IF newReset
        THEN resetSimulation(speed(resetSimulation(s, cfg, TRUE, draws, "default")), cfg, TRUE,
                             Later(draws, Len(draws) \div 2), "default")
        ELSE speed(s)

\* The effects of the first render, which React runs in a task of its own
\* or before it renders again: the engine is constructed, then every effect
\* runs, with the values of the first render and the refs as s has them.
mountEffects(s, draws) ==
    LET first == [s EXCEPT !.ui = [UseState EXCEPT !.simulationInterval =
                                                      s.ui.simulationInterval]]
        ran(e) == [s EXCEPT !.ui.simulationInterval = e.ui.simulationInterval,
                            !.timers = e.timers,
                            !.queue = e.queue]
    IN  ran(resetSimulation(
                speedEffect(resetSimulation(first, GameEngine(UseState), TRUE, draws, "default")),
                GameEngine(UseState), TRUE, Later(draws, Len(draws) \div 2), "default"))

----------------------------------------------------------------------------
(* Inputs *)

RECURSIVE SubsetsUpTo(_, _)
SubsetsUpTo(S, k) ==
    IF k = 0 THEN {{}}
    ELSE LET smaller == SubsetsUpTo(S, k - 1)
         IN  smaller \cup {T \cup {e} : T \in smaller, e \in S}

NumCells(n) == n * n * n

\* The binary grid of edge n whose live cells are the loop positions in L.
GridOf(n, L) ==
    [x \in Idx(n) |-> [y \in Idx(n) |-> [z \in Idx(n) |->
        IF Pos(n, x, y, z) \in L THEN 1 ELSE 0]]]

\* Grid sizes: 1 (every offset wraps onto the cell itself), 2 (opposite
\* offsets wrap onto the same cell) and 3 (the 26 offsets reach 26 cells).
GridSizes == {1, 2, 3}

\* Binary grids of edge n: all of them up to edge 2, beyond that those with
\* at most MaxLive live cells or at most MaxLive dead ones.
BinaryGrids(n) ==
    IF n <= 2
    THEN [Idx(n) -> [Idx(n) -> [Idx(n) -> {0, 1}]]]
    ELSE {GridOf(n, L) : L \in SubsetsUpTo(1 .. NumCells(n), MaxLive)}
         \cup {GridOf(n, (1 .. NumCells(n)) \ L) : L \in SubsetsUpTo(1 .. NumCells(n), MaxLive)}

\* Binary grids of edge n with at most two live cells, and the full one.
PairGrids(n) ==
    {GridOf(n, L) : L \in SubsetsUpTo(1 .. NumCells(n), 2)} \cup {GridOf(n, 1 .. NumCells(n))}

\* The grid in which the cell (x, y, z) of grid has moved to
\* ((x + a) mod n, (y + b) mod n, (z + c) mod n).
Shift(grid, n, a, b, c) ==
    [x \in Idx(n) |-> [y \in Idx(n) |-> [z \in Idx(n) |->
        grid[(x - a + n) % n][(y - b + n) % n][(z - c + n) % n]]]]

\* Binary grids of edge n in which the cell (0, 0, 0) lives, and the empty
\* one: up to a translation, every binary grid for an edge up to 2, and
\* beyond that every grid with at most two live cells, and the full one.
OriginGrids(n) ==
    IF n <= 2
    THEN {g \in BinaryGrids(n) : g[0][0][0] = 1} \cup {GridOf(n, {})}
    ELSE {GridOf(n, L \cup {1}) : L \in SubsetsUpTo(1 .. NumCells(n), 1)}
         \cup {GridOf(n, {}), GridOf(n, 1 .. NumCells(n))}

\* Rules under which a grid with one or two live cells has births.
BirthOnOne == [birthRule |-> 1, survivalMin |-> 1, survivalMax |-> 2]

\* The grids the tests build, of edge TestGridSize, by their live cells.
TestCells ==
    { {<<0, 0, 0>>},
      {<<2, 2, 2>>},
      {<<2, 2, 2>>, <<1, 2, 2>>, <<3, 2, 2>>, <<2, 1, 2>>, <<2, 3, 2>>},
      {<<1, 2, 2>>, <<3, 2, 2>>, <<2, 1, 2>>, <<2, 3, 2>>},
      {<<2, 2, 2>>, <<1, 2, 2>>, <<3, 2, 2>>, <<2, 1, 2>>, <<2, 3, 2>>, <<2, 2, 1>>, <<2, 2, 3>>},
      (1 .. 3) \X (1 .. 3) \X (1 .. 3),
      (0 .. 4) \X (0 .. 4) \X (0 .. 4) }

TestGrids ==
    {[x \in Idx(TestGridSize) |-> [y \in Idx(TestGridSize) |-> [z \in Idx(TestGridSize) |->
        IF <<x, y, z>> \in L THEN 1 ELSE 0]]] : L \in TestCells}

\* The rule parameters of the tests: defaultConfig and extremeConfig.
TestRules ==
    { [birthRule |-> 4, survivalMin |-> 4, survivalMax |-> 5],
      [birthRule |-> 26, survivalMin |-> 0, survivalMax |-> 26] }

DefaultRules == [birthRule |-> 4, survivalMin |-> 4, survivalMax |-> 5]

\* Rules under which sparse grids change: birth on 0 or on 1 neighbour.
LowRules ==
    { [birthRule |-> 0, survivalMin |-> 0, survivalMax |-> 1],
      [birthRule |-> 1, survivalMin |-> 1, survivalMax |-> 2] }

\* Every birth rule, with the survival range of defaultConfig.
BirthRules ==
    {[birthRule |-> b, survivalMin |-> 4, survivalMax |-> 5] : b \in 0 .. MaxNeighbors}

\* Every upper survival bound, with the birth rule of defaultConfig and a
\* lower bound of 0 or of defaultConfig.
SurvivalRules ==
    {[birthRule |-> 4, survivalMin |-> lo, survivalMax |-> hi] :
        lo \in {0, 4}, hi \in 0 .. MaxNeighbors}

AllRules ==
    [birthRule : 0 .. MaxNeighbors, survivalMin : 0 .. MaxNeighbors, survivalMax : 0 .. MaxNeighbors]

MakeConfig(n, rules, periodic) ==
    [gridSize |-> n, birthRule |-> rules.birthRule, survivalMin |-> rules.survivalMin,
     survivalMax |-> rules.survivalMax, periodicBoundaries |-> periodic]

\* Grid sizes of the engines whose runs of several calls are explored.
RunGridSizes == {1, 2}

\* Grids of edge n a caller holds: the empty one, those with one live cell,
\* the full one, and the empty one with a 2 written into its first cell.
SampleGrids(n) ==
    {GridOf(n, L) : L \in SubsetsUpTo(1 .. NumCells(n), 1)}
    \cup {GridOf(n, 1 .. NumCells(n)), [GridOf(n, {}) EXCEPT ![0][0][0] = 2]}

\* Outcomes of the NumCells(n) calls of Math.random() in halves: at most
\* one returns 0, the others 1/2.
DrawOutcomes(n) ==
    {[k \in 1 .. NumCells(n) |-> IF k \in L THEN 0 ELSE 1] :
        L \in SubsetsUpTo(1 .. NumCells(n), 1)}

\* Every outcome of the draws up to edge 2; beyond that those in which at
\* most MaxLive draws return 0, or at most MaxLive return 1/2.
AllDrawOutcomes(n) ==
    IF n <= 2
    THEN [1 .. NumCells(n) -> {0, 1}]
    ELSE {[k \in 1 .. NumCells(n) |-> IF k \in L THEN 0 ELSE 1] :
             L \in SubsetsUpTo(1 .. NumCells(n), MaxLive)}
         \cup {[k \in 1 .. NumCells(n) |-> IF k \in L THEN 1 ELSE 0] :
                  L \in SubsetsUpTo(1 .. NumCells(n), MaxLive)}

\* Densities in halves: -1/2, 0, 1/2, 1, 3/2.
Densities == (-1) .. 3

\* Values a caller passes to setCell.
CellValues == {0, 1, 2}

\* Values a caller gives to the fields of a configuration.
FieldChoices ==
    [gridSize : {1, 2}, birthRule : {6}, survivalMin : {2}, survivalMax : {6},
     periodicBoundaries : {FALSE}]

\* Rules whose survival range is inverted: the default bounds exchanged, and
\* a range that would hold every count were it read the other way round.
InvertedRules ==
    {[birthRule |-> 4, survivalMin |-> 5, survivalMax |-> 4],
     [birthRule |-> 4, survivalMin |-> MaxNeighbors, survivalMax |-> 0]}

\* Updates that invert the survival range of the default rules.
InvertingPartials ==
    {[survivalMin |-> 6], [survivalMax |-> 3],
     [survivalMin |-> MaxNeighbors, survivalMax |-> 0]}

\* Partial<GameOfLife3DConfig>: any subset of the fields, with values.
Partials == {[f \in S |-> c[f]] : c \in FieldChoices, S \in SUBSET Fields}

\* An assignment to one field of an object: the object with that field only.
FieldWrites == {p \in Partials : Cardinality(DOMAIN p) = 1}

NoArgs ==
    [g |-> 0, g2 |-> 0, x |-> 0, y |-> 0, z |-> 0, v |-> 0, b |-> FALSE, draws |-> << >>,
     r |-> 0, partial |-> EmptyObject]

\* Edges the grid size slider is moved to: its minimum and the next one.
UIGridSizes == {5, 6}

\* Values of the density slider, in hundredths: its default and its minimum.
UIDensities == {InitialDensity, 1}

\* Values of the speed slider, in milliseconds.
UISpeeds == {InitialSpeed, 500}

\* Every value of a rule slider.
SliderValues == SliderMin .. SliderMax

\* Outcomes of the calls of Math.random() a click on Reset makes, in
\* hundredths: every call returns 0.49, or the last one returns 0.05,
\* which is below the default density and above the lowest.
UIDraws(numCalls) ==
    {[k \in 1 .. numCalls |-> IF low /\ k = numCalls THEN 5 ELSE 49] : low \in BOOLEAN}

\* Outcomes of the calls of Math.random() the two resets of the effects of
\* one commit make, in hundredths: the last call returns 0.05 and the
\* others 0.49, so that the second grid has one live cell at the default
\* density and none at the lowest.
EffectDraws(numCalls) == {[k \in 1 .. numCalls |-> IF k = numCalls THEN 5 ELSE 49]}

\* Those of the mount, whose grids have 8000 cells.
MountDraws == EffectDraws(2 * NumCells(InitialGridSize))

\* The grids a caller can pass to a method.
Refs == grids

----------------------------------------------------------------------------
(* Operations of the engine, as calls *)

\* What every operation leaves behind: its name, arguments and result, and
\* the objects as they were when it was called.
Effect(name, a, r) ==
    /\ op' = name
    /\ args' = a
    /\ ret' = r
    /\ pre' = heap
    /\ preObjs' = objs
    /\ preSelf' = self
    /\ calls' = calls + 1
    /\ UNCHANGED <<ui, timers, queue, base, early, events, mounted, work>>

\* A method that works on grids: no configuration object is touched.  The
\* caller holds the grid a call returns; the grid a call had allocated when
\* it threw is returned to nobody.
Call(name, a, out) ==
    /\ Effect(name, a, out.ret)
    /\ heap' = out.heap
    /\ grids' = IF out.ret.kind = "grid" THEN grids \cup {out.ret.num} ELSE grids
    /\ UNCHANGED <<objs, self, held, latest>>

CreateEmptyGrid ==
    Call("createEmptyGrid", NoArgs,
         Outcome(Append(heap, createEmptyGrid(config)), RetGrid(Len(heap) + 1)))

CreateRandomGridFrom(outcomes) ==
    \E density \in Densities, draws \in outcomes :
        Call("createRandomGrid", [NoArgs EXCEPT !.v = density, !.draws = draws],
             createRandomGrid(heap, config, density, draws))

CreateRandomGrid == CreateRandomGridFrom(DrawOutcomes(config.gridSize))

CountNeighbors ==
    \E g \in Refs, x \in Idx(config.gridSize), y \in Idx(config.gridSize), z \in Idx(config.gridSize) :
        Call("countNeighbors", [NoArgs EXCEPT !.g = g, !.x = x, !.y = y, !.z = z],
             Outcome(heap, countNeighbors(config, heap[g], x, y, z)))

ApplyCellRule ==
    \E isAlive \in BOOLEAN, n \in 0 .. MaxNeighbors :
        Call("applyCellRule", [NoArgs EXCEPT !.b = isAlive, !.v = n],
             Outcome(heap, RetBool(applyCellRule(config, isAlive, n))))

Step ==
    \E g \in Refs : Call("step", [NoArgs EXCEPT !.g = g], step(heap, config, g))

CountLivingCells ==
    \E g \in Refs :
        Call("countLivingCells", [NoArgs EXCEPT !.g = g],
             Outcome(heap, countLivingCells(config, heap[g])))

GridsEqual ==
    \E g \in Refs, g2 \in Refs :
        Call("gridsEqual", [NoArgs EXCEPT !.g = g, !.g2 = g2],
             Outcome(heap, gridsEqual(config, heap[g], heap[g2])))

CopyGrid ==
    \E g \in Refs : Call("copyGrid", [NoArgs EXCEPT !.g = g], copyGrid(heap, config, g))

SetCell ==
    \E g \in Refs, x \in (-1) .. config.gridSize, y \in (-1) .. config.gridSize,
       z \in (-1) .. config.gridSize, value \in CellValues :
        Call("setCell", [NoArgs EXCEPT !.g = g, !.x = x, !.y = y, !.z = z, !.v = value],
             setCell(heap, config, g, x, y, z, value))

GetCell ==
    \E g \in Refs, x \in (-1) .. config.gridSize, y \in (-1) .. config.gridSize,
       z \in (-1) .. config.gridSize :
        Call("getCell", [NoArgs EXCEPT !.g = g, !.x = x, !.y = y, !.z = z],
             Outcome(heap, getCell(config, heap[g], x, y, z)))

UpdateConfigFrom(partials) ==
    \E newConfig \in partials :
        /\ Effect("updateConfig", [NoArgs EXCEPT !.partial = newConfig], RetVoid)
        /\ objs' = updateConfig(objs, self, newConfig).objs
        /\ self' = updateConfig(objs, self, newConfig).self
        /\ latest' = Spread(latest, newConfig)
        /\ UNCHANGED <<heap, grids, held>>

UpdateConfig == UpdateConfigFrom(Partials)

\* const config1 = game.getConfig(): the caller keeps the reference.
GetConfig ==
    /\ Effect("getConfig", NoArgs, RetConfig(getConfig(objs, self).ref))
    /\ objs' = getConfig(objs, self).objs
    /\ held' = held \cup {getConfig(objs, self).ref}
    /\ UNCHANGED <<heap, grids, self, latest>>

\* config1.birthRule = 999: the caller assigns to a field of an object it
\* holds.
AssignField ==
    \E r \in held, w \in FieldWrites :
        /\ Effect("assign", [NoArgs EXCEPT !.r = r, !.partial = w], RetVoid)
        /\ objs' = [objs EXCEPT ![r] = Spread(@, w)]
        /\ UNCHANGED <<heap, grids, self, held, latest>>

----------------------------------------------------------------------------
(* Steps of the component *)

\* The events that start, stop, step or reset the simulation, by the name
\* of their step: the buttons, the timer, and the sliders of grid size,
\* density and speed.  The rule sliders only replace the engine.
Simulation ==
    {"toggle", "step", "tick", "reset", "clear", "setGridSize", "setInitialDensity", "setSpeed"}

\* The events that are counted: those of the simulation, the clicks that
\* open and close the settings panel, and the gestures on the canvas.
Events == Simulation \cup {"settings", "close", "onStart", "onEnd"}

\* The events in which the engine steps a grid or fills a new one.
EngineCalls == {"step", "tick", "reset", "clear", "setInitialDensity"}

\* An event is served while the component is mounted; the render of a later
\* task waits for at most MaxEarly events, and MaxEvents events are served,
\* MaxLarge of them before the grid size slider is moved; the engine is
\* called on the cube of edge InitialGridSize in the first MaxLargeCalls of
\* them only.
Served(name) ==
    /\ mounted
    /\ Pending(queue) => early < MaxEarly
    /\ name \in Events =>
          /\ events < MaxEvents
          /\ ui.gridSize = InitialGridSize =>
                events < (IF name \in EngineCalls THEN MaxLargeCalls ELSE MaxLarge)

\* What a step of the component leaves behind: the values rendered, the
\* intervals, React's queues, and the engine the construction effect left
\* in gameEngine.current, which held o before.  Every such step has
\* dispatched an update and marked work on the component's fiber.  A step
\* of the component is not a call of the engine's caller: pre, preObjs and
\* preSelf stay.
Commit(name, s, o, served) ==
    /\ \E c \in {s} :
          /\ ui' = c.ui
          /\ timers' = c.timers
          /\ queue' = c.queue
          /\ base' = c.base
          /\ objs' = EngineEffect(o, ui, c.ui)
    /\ early' = served
    /\ events' = IF name \in Events THEN events + 1 ELSE events
    /\ work' = TRUE
    /\ op' = name
    /\ args' = NoArgs
    /\ ret' = RetVoid
    /\ UNCHANGED <<self, held, latest, heap, grids, calls, pre, preObjs, preSelf, mounted>>

\* A render threw twice and no error boundary caught it: React unmounts the
\* component, whose cleanup clears the interval the ref holds.  s is what the
\* handler left before the render, o what gameEngine.current holds.
Crash(name, s, o) ==
    /\ mounted' = FALSE
    /\ ui' = [ui EXCEPT !.simulationInterval = s.ui.simulationInterval]
    /\ timers' = cleanup(s.timers, s.ui.simulationInterval)
    /\ objs' = o
    /\ op' = name
    /\ args' = NoArgs
    /\ ret' = RetThrow
    /\ UNCHANGED <<self, held, latest, heap, grids, calls, pre, preObjs, preSelf,
                   queue, base, early, events, work>>

\* gameEngine.current is null: the effects of the first render have not run.
NoEngine == objs = << >>

\* An event handler has run and left s.  React runs the effects of the first
\* render if they have not run yet, renders the updates of the handler,
\* commits, and runs the effects of the render.  When the render throws,
\* React renders once more, with every update that waits, and commits that.
Handle(name, s, draws) ==
    /\ Served(name)
    /\ \E first \in (IF NoEngine THEN MountDraws ELSE {<< >>}) :
       \E f \in {IF NoEngine THEN mountEffects(s, first) ELSE s} :
       \E o \in {IF NoEngine THEN <<GameEngine(UseState)>> ELSE objs} :
       \E r1 \in {render(f, "sync", o[self])} :
       \E r \in {IF r1.threw THEN render(f, "default", o[self]) ELSE r1} :
          IF r.threw
          THEN Crash(name, f, o)
          ELSE Commit(name, effects(ui, r, EngineEffect(o, ui, r.ui)[1], draws), o,
                      IF Pending(r.queue) THEN early + 1 ELSE 0)

\* A handler that returns at once, gameEngine.current being null: nothing is
\* dispatched and nothing rendered.
Returns(name) ==
    /\ mounted
    /\ NoEngine
    /\ op' = name
    /\ args' = NoArgs
    /\ ret' = RetVoid
    /\ UNCHANGED <<objs, self, held, latest, heap, grids, calls, pre, preObjs, preSelf,
                   ui, timers, queue, base, early, events, mounted, work>>

\* The task that runs the effects of the first render.
MountEffects ==
    /\ mounted
    /\ NoEngine
    /\ \E first \in MountDraws :
          Commit("effects", mountEffects(Component(ui, timers, queue, base), first),
                 <<GameEngine(UseState)>>, 0)

\* The task React scheduled for the updates of effects and timer callbacks:
\* every update in the queues is rendered.  When the render throws, the
\* second attempt renders the same updates and throws as well.
RenderLater ==
    /\ mounted
    /\ Pending(queue)
    /\ \E r \in {render(Component(ui, timers, queue, base), "default", config)} :
          IF r.threw
          THEN Crash("render", Component(ui, timers, queue, base), objs)
          ELSE Commit("render", effects(ui, r, config, << >>), objs, 0)

\* A child of the component renders while no update of the component waits
\* (the <Canvas> has measured its size again): React passes through the
\* component without running it, and its fiber and the alternate are left
\* without work.  Every step that dispatches an update marks work again.
ChildRender ==
    /\ mounted
    /\ ~NoEngine
    /\ Idle(queue)
    /\ work
    /\ work' = FALSE
    /\ op' = "childRender"
    /\ args' = NoArgs
    /\ ret' = RetVoid
    /\ UNCHANGED <<objs, self, held, latest, heap, grids, calls, pre, preObjs, preSelf,
                   ui, timers, queue, base, early, events, mounted>>

\* Click on Play / Pause.
Toggle ==
    Handle("toggle", toggleSimulation(Component(ui, timers, queue, base)), << >>)

\* Click on Step, which is disabled while the render has isRunning.
StepButton ==
    /\ ~ui.isRunning
    /\ ui.generation + Steps(queue) < MaxGeneration
    /\ IF NoEngine
       THEN Returns("step")
       ELSE Handle("step",
                   stepSimulation(Component(ui, timers, queue, base), config, ui.gridSize,
                                  "sync", work),
                   << >>)

\* An interval fires: its callback calls stepSimulation, and nothing is
\* rendered before the callback returns.
Tick ==
    /\ Served("tick")
    /\ ui.generation + Steps(queue) < MaxGeneration
    /\ \E t \in timers :
          Commit("tick",
                 stepSimulation(Component(ui, timers, queue, base), config, t.gridSize,
                                "default", work),
                 objs, IF Pending(queue) THEN early + 1 ELSE 0)

\* Click on Reset.
Reset ==
    IF NoEngine
    THEN Returns("reset")
    ELSE \E draws \in UIDraws(NumCells(ui.gridSize)) :
             Handle("reset",
                    resetSimulation(Component(ui, timers, queue, base), config, TRUE, draws,
                                    "sync"),
                    << >>)

\* Click on Clear: clearSimulation().
Clear ==
    IF NoEngine
    THEN Returns("clear")
    ELSE Handle("clear",
                resetSimulation(Component(ui, timers, queue, base), config, FALSE, << >>,
                                "sync"),
                << >>)

\* Click on the settings button: setShowSettings(!showSettings), showSettings
\* being the value of the last render.
SettingsButton ==
    Handle("settings", Component([ui EXCEPT !.showSettings = ~ui.showSettings], timers, queue, base),
           << >>)

\* Click on the close button of the settings panel, which is rendered while
\* showSettings holds: setShowSettings(false).
CloseButton ==
    /\ ui.showSettings
    /\ Handle("close", Component([ui EXCEPT !.showSettings = FALSE], timers, queue, base), << >>)

\* onStart of the orbit controls, which they call in their listener of a
\* pointer event when a gesture on the canvas begins:
\* setIsUserInteracting(true).  The update has the lane "sync" and is
\* rendered before the event ends.
OnStart ==
    /\ ~ui.isUserInteracting
    /\ Handle("onStart",
              Component(ui, timers,
                        [queue EXCEPT !.isUserInteracting = Append(@, Update("sync", "set", TRUE))],
                        base),
              << >>)

\* onEnd of the orbit controls, when the gesture the render knows of ends:
\* setIsUserInteracting(false).
OnEnd ==
    /\ ui.isUserInteracting
    /\ Handle("onEnd",
              Component(ui, timers,
                        [queue EXCEPT !.isUserInteracting = Append(@, Update("sync", "set", FALSE))],
                        base),
              << >>)

\* The sliders are in the settings panel, which is rendered while
\* showSettings holds; onChange fires when the value of a slider changes.

\* The grid size slider.
SetGridSize ==
    /\ ui.showSettings
    /\ \E n \in UIGridSizes \ {ui.gridSize} :
          \E draws \in EffectDraws(2 * NumCells(n)) :
              Handle("setGridSize", Component([ui EXCEPT !.gridSize = n], timers, queue, base),
                     draws)

\* The density slider.
SetInitialDensity ==
    /\ ui.showSettings
    /\ \E d \in UIDensities \ {ui.initialDensity} :
          \E draws \in EffectDraws(2 * NumCells(ui.gridSize)) :
              Handle("setInitialDensity",
                     Component([ui EXCEPT !.initialDensity = d], timers, queue, base), draws)

\* The speed slider.
SetSpeed ==
    /\ ui.showSettings
    /\ \E v \in UISpeeds \ {ui.speed} :
          Handle("setSpeed", Component([ui EXCEPT !.speed = v], timers, queue, base), << >>)

\* The rule sliders.
SetBirthRule(values) ==
    /\ ui.showSettings
    /\ \E val \in values \ {ui.birthRule} :
          Handle("setBirthRule", Component(birthRuleChange(ui, val), timers, queue, base),
                 << >>)

SetSurvivalMin(values) ==
    /\ ui.showSettings
    /\ \E val \in values \ {ui.survivalMin} :
          Handle("setSurvivalMin", Component(survivalMinChange(ui, val), timers, queue, base),
                 << >>)

SetSurvivalMax(values) ==
    /\ ui.showSettings
    /\ \E val \in values \ {ui.survivalMax} :
          Handle("setSurvivalMax", Component(survivalMaxChange(ui, val), timers, queue, base),
                 << >>)

\* The component is unmounted: React runs the effects of the first render
\* if they have not run yet, and the cleanup of the last effect.
Unmount ==
    /\ mounted
    /\ mounted' = FALSE
    /\ timers' = cleanup(timers, ui.simulationInterval)
    /\ objs' = IF NoEngine THEN <<GameEngine(UseState)>> ELSE objs
    /\ op' = "unmount"
    /\ args' = NoArgs
    /\ ret' = RetVoid
    /\ UNCHANGED <<self, held, latest, heap, grids, calls, pre, preObjs, preSelf,
                   ui, queue, base, early, events, work>>

----------------------------------------------------------------------------
(* Specifications *)

\* new GameOfLife3D(c): this.config = c, the caller's object itself.
Construct(c) ==
    /\ objs = <<c>>
    /\ self = 1
    /\ held = {1}
    /\ latest = EmptyObject
    /\ preObjs = <<c>>
    /\ preSelf = 1

Fresh ==
    /\ grids = DOMAIN heap
    /\ pre = << >>
    /\ op = "new"
    /\ args = NoArgs
    /\ ret = RetVoid
    /\ calls = 0
    /\ ui = UseState
    /\ timers = {}
    /\ queue = NoUpdates
    /\ base = Rendered(UseState)
    /\ early = 0
    /\ events = 0
    /\ mounted = FALSE
    /\ work = FALSE

\* new GameOfLife3D(config): no grid exists yet.
Init ==
    /\ \E n \in RunGridSizes, rules \in {DefaultRules}, periodic \in BOOLEAN :
          Construct(MakeConfig(n, rules, periodic))
    /\ heap = << >>
    /\ Fresh

Next ==
    /\ calls < MaxCalls
    /\ \/ CreateEmptyGrid
       \/ CreateRandomGrid
       \/ CountNeighbors
       \/ ApplyCellRule
       \/ Step
       \/ CountLivingCells
       \/ GridsEqual
       \/ CopyGrid
       \/ SetCell
       \/ GetCell
       \/ UpdateConfig
       \/ GetConfig
       \/ AssignField

Spec == Init /\ [][Next]_vars

\* An engine and one binary grid of its size, handed to a single call of
\* countNeighbors, of step or of countLivingCells.
InitNeighbors ==
    /\ \/ \E n \in GridSizes, periodic \in BOOLEAN : \E g \in BinaryGrids(n) :
             Construct(MakeConfig(n, DefaultRules, periodic)) /\ heap = <<g>>
       \/ \E periodic \in BOOLEAN, g \in TestGrids :
             Construct(MakeConfig(TestGridSize, DefaultRules, periodic)) /\ heap = <<g>>
       \/ \E n \in GridSizes, periodic \in BOOLEAN, rules \in SurvivalRules :
             Construct(MakeConfig(n, rules, periodic))
             /\ heap = <<GridOf(n, 1 .. NumCells(n))>>
    /\ Fresh

NextNeighbors ==
    /\ calls = 0
    /\ \/ CountNeighbors
       \/ Step
       \/ CountLivingCells

SpecNeighbors == InitNeighbors /\ [][NextNeighbors]_vars

\* An engine and one binary grid of its size, handed to a single call of step
\* or of createEmptyGrid.
InitStep ==
    /\ \/ \E n \in GridSizes, periodic \in BOOLEAN, rules \in TestRules \cup LowRules :
          \E g \in BinaryGrids(n) :
             Construct(MakeConfig(n, rules, periodic)) /\ heap = <<g>>
       \/ \E periodic \in BOOLEAN, rules \in TestRules \cup LowRules, g \in TestGrids :
             Construct(MakeConfig(TestGridSize, rules, periodic)) /\ heap = <<g>>
       \/ \E n \in GridSizes, periodic \in BOOLEAN, rules \in BirthRules :
             Construct(MakeConfig(n, rules, periodic)) /\ heap = <<GridOf(n, {})>>
    /\ Fresh

NextStep ==
    /\ calls = 0
    /\ \/ Step
       \/ CreateEmptyGrid

SpecStep == InitStep /\ [][NextStep]_vars

\* An engine of any rule parameters, handed to a single call of applyCellRule.
InitRule ==
    /\ \E rules \in AllRules : Construct(MakeConfig(1, rules, TRUE))
    /\ heap = << >>
    /\ Fresh

NextRule == calls = 0 /\ ApplyCellRule

SpecRule == InitRule /\ [][NextRule]_vars

\* An engine and two grids, each of the engine's size or of the size the
\* engine had before an updateConfig, handed to one call of a method that
\* reads or writes grids, or to copyGrid and then a setCell.
InitGrids ==
    /\ \E n \in RunGridSizes, a \in RunGridSizes, b \in RunGridSizes :
          \E g1 \in SampleGrids(a), g2 \in SampleGrids(b) :
             Construct(MakeConfig(n, DefaultRules, TRUE)) /\ heap = <<g1, g2>>
    /\ Fresh

NextGrids ==
    \/ /\ calls = 0
       /\ \/ GridsEqual
          \/ CopyGrid
          \/ SetCell
          \/ GetCell
          \/ CountLivingCells
          \/ CountNeighbors
    \/ /\ calls = 1
       /\ op = "copyGrid"
       /\ SetCell

SpecGrids == InitGrids /\ [][NextGrids]_vars

\* An engine and a grid it created at construction, then two steps of
\* updateConfig, getConfig or an assignment by the caller, then any of these
\* or a call of a method that reads the configuration.
InitConfig ==
    /\ \E n \in RunGridSizes, periodic \in BOOLEAN, L \in {{}, {1}} :
          Construct(MakeConfig(n, DefaultRules, periodic)) /\ heap = <<GridOf(n, L)>>
    /\ Fresh

NextConfig ==
    \/ /\ calls \in {0, 1, 2}
       /\ \/ UpdateConfig
          \/ GetConfig
          \/ AssignField
    \/ /\ calls = 2
       /\ \/ CreateEmptyGrid
          \/ CountNeighbors
          \/ ApplyCellRule
          \/ Step

SpecConfig == InitConfig /\ [][NextConfig]_vars

\* An engine, handed to a single call of createRandomGrid.
InitRandom ==
    /\ \E n \in GridSizes, periodic \in BOOLEAN :
          Construct(MakeConfig(n, DefaultRules, periodic))
    /\ heap = << >>
    /\ Fresh

NextRandom == calls = 0 /\ CreateRandomGridFrom(AllDrawOutcomes(config.gridSize))

SpecRandom == InitRandom /\ [][NextRandom]_vars

\* An engine with an inverted survival range, from its constructor or from
\* an updateConfig, and one binary grid of its size: the rule and step are
\* called on it.
InitInverted ==
    /\ \E n \in RunGridSizes, periodic \in BOOLEAN, rules \in InvertedRules \cup {DefaultRules} :
          \E g \in PairGrids(n) :
              Construct(MakeConfig(n, rules, periodic)) /\ heap = <<g>>
    /\ Fresh

NextInverted ==
    \/ calls = 0 /\ UpdateConfigFrom(InvertingPartials)
    \/ op \in {"new", "updateConfig"} /\ Step
    \/ op \in {"new", "updateConfig"} /\ ApplyCellRule

SpecInverted == InitInverted /\ [][NextInverted]_vars

\* The caller builds the translation of its first grid by (a, b, c).
Translate ==
    \E a \in Idx(config.gridSize), b \in Idx(config.gridSize), c \in Idx(config.gridSize) :
        Call("translate", [NoArgs EXCEPT !.g = 1, !.x = a, !.y = b, !.z = c],
             Outcome(Append(heap, Shift(heap[1], config.gridSize, a, b, c)),
                     RetGrid(Len(heap) + 1)))

\* A periodic engine and a binary grid of its size: step is called on the
\* grid, the caller translates the grid along the torus, and step is called
\* on the translation.
InitShift ==
    /\ \/ \E n \in RunGridSizes : \E g \in OriginGrids(n) :
             Construct(MakeConfig(n, DefaultRules, TRUE)) /\ heap = <<g>>
       \/ \E g \in OriginGrids(3) :
             Construct(MakeConfig(3, BirthOnOne, TRUE)) /\ heap = <<g>>
    /\ Fresh

NextShift ==
    \/ calls = 0 /\ Step
    \/ calls = 1 /\ Translate
    \/ calls = 2 /\ Step /\ args'.g = 3

SpecShift == InitShift /\ [][NextShift]_vars

\* The component after its first render is committed: the effects of the
\* render have not run, gameEngine.current is null and nothing is queued.
InitUI ==
    /\ ui = UseState
    /\ timers = {}
    /\ queue = NoUpdates
    /\ base = Rendered(UseState)
    /\ objs = << >>
    /\ self = 1
    /\ held = {}
    /\ latest = EmptyObject
    /\ heap = << >>
    /\ grids = {}
    /\ pre = << >>
    /\ preObjs = << >>
    /\ preSelf = 1
    /\ op = "mount"
    /\ args = NoArgs
    /\ ret = RetVoid
    /\ calls = 0
    /\ early = 0
    /\ events = 0
    /\ mounted = TRUE
    /\ work = FALSE

\* The component in use: the buttons, the timer, the gestures on the
\* canvas, the settings panel and its sliders of grid size, density and
\* speed.
NextUI ==
    \/ MountEffects
    \/ SettingsButton
    \/ CloseButton
    \/ OnStart
    \/ OnEnd
    \/ Toggle
    \/ StepButton
    \/ Tick
    \/ RenderLater
    \/ ChildRender
    \/ Reset
    \/ Clear
    \/ SetGridSize
    \/ SetInitialDensity
    \/ SetSpeed
    \/ Unmount

SpecUI == InitUI /\ [][NextUI]_vars

\* The settings panel is opened and closed, and the rule sliders are moved
\* over their whole range.
NextSliders ==
    \/ MountEffects
    \/ SettingsButton
    \/ CloseButton
    \/ SetBirthRule({SliderMin, SliderMax})
    \/ SetSurvivalMin(SliderValues)
    \/ SetSurvivalMax(SliderValues)
    \/ RenderLater
    \/ ChildRender
    \/ Unmount

SpecSliders == InitUI /\ [][NextSliders]_vars

----------------------------------------------------------------------------
(* Properties *)

\* The 26 offsets of the 3 x 3 x 3 cube around a cell, the centre excluded.
Offsets26 ==
    {d \in ((-1) .. 1) \X ((-1) .. 1) \X ((-1) .. 1) : d # <<0, 0, 0>>}

Cells(n) == Idx(n) \X Idx(n) \X Idx(n)

N == config.gridSize

\* The grid the last call was given, as it was when the call was made, and
\* the grid it returned.
InputGrid == pre[args.g]
ResultGrid == heap[ret.num]

IsBinaryCube(grid, n) ==
    /\ DOMAIN grid = Idx(n)
    /\ \A x \in Idx(n) :
          /\ DOMAIN grid[x] = Idx(n)
          /\ \A y \in Idx(n) :
                /\ DOMAIN grid[x][y] = Idx(n)
                /\ \A z \in Idx(n) : grid[x][y][z] \in {0, 1}

\* C1: every cell of step(grid) is 1 exactly when applyCellRule holds of the
\* cell's state and of its neighbour count in the grid as it was before the
\* call, and 0 otherwise.
C1_StepIsSynchronous ==
    op = "step" =>
        /\ ret.kind = "grid"
        /\ \A c \in Cells(N) :
              ResultGrid[c[1]][c[2]][c[3]] =
                  IF applyCellRule(config, InputGrid[c[1]][c[2]][c[3]] = 1,
                                   countNeighbors(config, InputGrid, c[1], c[2], c[3]).num)
                  THEN 1 ELSE 0

\* A step in which one cell dies and another is born.
C1_Witness ==
    /\ op = "step"
    /\ ret.kind = "grid"
    /\ \E a \in Cells(N), b \in Cells(N) :
          /\ InputGrid[a[1]][a[2]][a[3]] = 1 /\ ResultGrid[a[1]][a[2]][a[3]] = 0
          /\ InputGrid[b[1]][b[2]][b[3]] = 0 /\ ResultGrid[b[1]][b[2]][b[3]] = 1

\* C2: step leaves every grid that existed before the call as it was, the
\* input included, and returns a grid object that did not exist before.
C2_StepNonDestructive ==
    op = "step" =>
        /\ ret.kind = "grid"
        /\ ret.num # args.g
        /\ ret.num \notin DOMAIN pre
        /\ \A r \in DOMAIN pre : heap[r] = pre[r]

\* A step whose result differs from its input.
C2_Witness ==
    /\ op = "step"
    /\ ret.kind = "grid"
    /\ ret.num # args.g
    /\ ResultGrid # InputGrid
    /\ heap[args.g] = InputGrid

\* The number of the 26 offsets that, wrapped modulo n on each axis, reach a
\* live cell of a binary grid.
PeriodicSum(grid, n, x, y, z) ==
    Cardinality({d \in Offsets26 :
        grid[(x + d[1] + n) % n][(y + d[2] + n) % n][(z + d[3] + n) % n] = 1})

\* C3: with periodic boundaries countNeighbors is the sum over the 26 offsets
\* of the cell at the wrapped position; a single live cell at (0,0,0) of a
\* grid of edge 5 is counted once from (4,4,4).
C3_PeriodicCount ==
    (op = "countNeighbors" /\ config.periodicBoundaries) =>
        /\ ret = RetNum(PeriodicSum(InputGrid, N, args.x, args.y, args.z))
        /\ (/\ N = TestGridSize
            /\ InputGrid = [createEmptyGrid(config) EXCEPT ![0][0][0] = 1]
            /\ <<args.x, args.y, args.z>> = <<4, 4, 4>>) => ret = RetNum(1)

\* The wraparound test: the lone cell (0,0,0) seen from (4,4,4).
C3_Witness ==
    /\ op = "countNeighbors"
    /\ config.periodicBoundaries
    /\ N = TestGridSize
    /\ InputGrid = [createEmptyGrid(config) EXCEPT ![0][0][0] = 1]
    /\ <<args.x, args.y, args.z>> = <<4, 4, 4>>
    /\ ret = RetNum(1)

\* The number of the 26 offsets that stay inside the lattice on all three
\* axes and reach a live cell of a binary grid.
ClippedSum(grid, n, x, y, z) ==
    Cardinality({d \in Offsets26 :
        /\ x + d[1] \in Idx(n) /\ y + d[2] \in Idx(n) /\ z + d[3] \in Idx(n)
        /\ grid[x + d[1]][y + d[2]][z + d[3]] = 1})

\* C4: without periodic boundaries countNeighbors is the sum over exactly
\* the offsets that stay inside the lattice on all three axes.
C4_ClippedCount ==
    (op = "countNeighbors" /\ ~config.periodicBoundaries) =>
        ret = RetNum(ClippedSum(InputGrid, N, args.x, args.y, args.z))

\* A corner cell with a live neighbour inside and a live cell that only
\* wraparound would reach.
C4_Witness ==
    /\ op = "countNeighbors"
    /\ ~config.periodicBoundaries
    /\ N = 3
    /\ <<args.x, args.y, args.z>> = <<0, 0, 0>>
    /\ InputGrid[1][1][1] = 1
    /\ InputGrid[2][2][2] = 1
    /\ ret = RetNum(7)

\* C5: the state of the cell itself does not enter its neighbour count, and
\* a grid whose only live cell is the one asked about counts 0.
C5_CellNotOwnNeighbour ==
    op = "countNeighbors" =>
        /\ \A v \in {0, 1} :
              countNeighbors(config, [InputGrid EXCEPT ![args.x][args.y][args.z] = v],
                             args.x, args.y, args.z) = ret
        /\ InputGrid = [createEmptyGrid(config) EXCEPT ![args.x][args.y][args.z] = 1]
              => ret = RetNum(0)

\* C6: a live cell survives exactly on survivalMin <= n <= survivalMax.
C6_SurvivalRule ==
    (op = "applyCellRule" /\ args.b) =>
        ret = RetBool(config.survivalMin <= args.v /\ args.v <= config.survivalMax)

\* A live cell survives on exactly survivalMax neighbours, which is not the
\* birth rule.
C6_Witness ==
    /\ op = "applyCellRule"
    /\ args.b
    /\ config.survivalMin < config.survivalMax
    /\ args.v = config.survivalMax
    /\ args.v # config.birthRule
    /\ ret = RetBool(TRUE)

\* C7: a dead cell is born exactly on n = birthRule.
C7_BirthRule ==
    (op = "applyCellRule" /\ ~args.b) =>
        ret = RetBool(args.v = config.birthRule)

\* A dead cell with more neighbours than birthRule, inside the survival
\* range, stays dead.
C7_Witness ==
    /\ op = "applyCellRule"
    /\ ~args.b
    /\ args.v > config.birthRule
    /\ config.survivalMin <= args.v /\ args.v <= config.survivalMax
    /\ ret = RetBool(FALSE)

\* C8: for every birth rule in 0 .. 26, the step of the all-zero grid equals
\* the all-zero grid under gridsEqual and has no living cell.
C8_EmptyGridFixedPoint ==
    (op = "step" /\ InputGrid = createEmptyGrid(config)) =>
        /\ ret.kind = "grid"
        /\ gridsEqual(config, ResultGrid, InputGrid) = RetBool(TRUE)
        /\ countLivingCells(config, ResultGrid) = RetNum(0)

\* C8, amended: the same for every birth rule in 1 .. 26.
C8_EmptyGridFixedPointBirthPositive ==
    (op = "step" /\ InputGrid = createEmptyGrid(config) /\ config.birthRule # 0) =>
        /\ ret.kind = "grid"
        /\ gridsEqual(config, ResultGrid, InputGrid) = RetBool(TRUE)
        /\ countLivingCells(config, ResultGrid) = RetNum(0)

\* The all-zero grid of edge 3 stepped under birth rule 1.
C8_Witness ==
    /\ op = "step"
    /\ N = 3
    /\ config.birthRule = 1
    /\ InputGrid = createEmptyGrid(config)
    /\ ret.kind = "grid"
    /\ ResultGrid = createEmptyGrid(config)

\* C9: every grid the engine holds is a cube of edge gridSize whose cells
\* are all 0 or 1, whatever calls were made, setCell with any value included.
C9_GridsWellFormed ==
    \A r \in DOMAIN heap : IsBinaryCube(heap[r], N)

\* C10: createEmptyGrid returns a cube of edge gridSize whose cells are all
\* 0, and countLivingCells of it is 0.
C10_EmptyGridAllZero ==
    op = "createEmptyGrid" =>
        /\ ret.kind = "grid"
        /\ IsBinaryCube(ResultGrid, N)
        /\ \A c \in Cells(N) : ResultGrid[c[1]][c[2]][c[3]] = 0
        /\ countLivingCells(config, ResultGrid) = RetNum(0)

\* createEmptyGrid called on an engine of edge 3.
C10_Witness ==
    /\ op = "createEmptyGrid"
    /\ N = 3
    /\ ret.kind = "grid"
    /\ Cardinality(DOMAIN ResultGrid[2][2]) = 3

\* The grid of edge n whose only live cell is c, and the one whose only dead
\* cell is c.
LoneCell(n, c) ==
    [x \in Idx(n) |-> [y \in Idx(n) |-> [z \in Idx(n) |-> IF <<x, y, z>> = c THEN 1 ELSE 0]]]

AllButCell(n, c) ==
    [x \in Idx(n) |-> [y \in Idx(n) |-> [z \in Idx(n) |-> IF <<x, y, z>> = c THEN 0 ELSE 1]]]

AllAlive(n) ==
    [x \in Idx(n) |-> [y \in Idx(n) |-> [z \in Idx(n) |-> 1]]]

DefaultRulesHold ==
    config.birthRule = 4 /\ config.survivalMin = 4 /\ config.survivalMax = 5

\* C11: under the default rules, for every gridSize and either boundary
\* policy, the step of a grid with exactly one live cell has that cell dead
\* and no living cell at all.
C11_LoneCellDies ==
    (op = "step" /\ DefaultRulesHold) =>
        \A c \in Cells(N) :
            InputGrid = LoneCell(N, c) =>
                /\ ret.kind = "grid"
                /\ ResultGrid[c[1]][c[2]][c[3]] = 0
                /\ countLivingCells(config, ResultGrid) = RetNum(0)

\* C11, amended: the lone cell is dead after the step for every gridSize and
\* either policy; no cell lives after it unless gridSize is 2 with periodic
\* boundaries, where the three cells that differ from the lone cell on
\* exactly two axes see it through four offsets each and are born.
C11_LoneCellDiesBirthsOnTorus2 ==
    (op = "step" /\ DefaultRulesHold) =>
        \A c \in Cells(N) :
            InputGrid = LoneCell(N, c) =>
                /\ ret.kind = "grid"
                /\ ResultGrid[c[1]][c[2]][c[3]] = 0
                /\ countLivingCells(config, ResultGrid) =
                       RetNum(IF N = 2 /\ config.periodicBoundaries THEN 3 ELSE 0)
                /\ (N = 2 /\ config.periodicBoundaries) =>
                       \A d \in Cells(N) :
                           ResultGrid[d[1]][d[2]][d[3]] = 1 <=>
                               Cardinality({i \in 1 .. 3 : d[i] # c[i]}) = 2

\* The tests' lone cell (2,2,2) of the grid of edge 5 has died.
C11_Witness ==
    /\ op = "step"
    /\ DefaultRulesHold
    /\ N = TestGridSize
    /\ InputGrid = LoneCell(N, <<2, 2, 2>>)
    /\ ret.kind = "grid"
    /\ ResultGrid = createEmptyGrid(config)

\* C12: with periodic boundaries, for every gridSize, countNeighbors of the
\* all-alive grid is 26 at every cell, countNeighbors of a grid all alive
\* except one cell is 26 at that cell, and whenever survivalMax < 26 the step
\* of the all-alive grid is the all-dead grid.
C12_FullTorusCounts ==
    config.periodicBoundaries =>
        /\ (op = "countNeighbors" /\ InputGrid = AllAlive(N)) => ret = RetNum(MaxNeighbors)
        /\ (op = "countNeighbors" /\ InputGrid = AllButCell(N, <<args.x, args.y, args.z>>))
               => ret = RetNum(MaxNeighbors)
        /\ (op = "step" /\ InputGrid = AllAlive(N) /\ config.survivalMax < MaxNeighbors)
               => (ret.kind = "grid" /\ ResultGrid = createEmptyGrid(config))

\* C12, amended: the count at the only dead cell is 26 for gridSize >= 2; a
\* grid of edge 1 has no cell but that one, and its count is 0.
C12_FullTorusCountsFromEdge2 ==
    config.periodicBoundaries =>
        /\ (op = "countNeighbors" /\ InputGrid = AllAlive(N)) => ret = RetNum(MaxNeighbors)
        /\ (op = "countNeighbors" /\ InputGrid = AllButCell(N, <<args.x, args.y, args.z>>))
               => ret = RetNum(IF N >= 2 THEN MaxNeighbors ELSE 0)
        /\ (op = "step" /\ InputGrid = AllAlive(N) /\ config.survivalMax < MaxNeighbors)
               => (ret.kind = "grid" /\ ResultGrid = createEmptyGrid(config))

\* The only dead cell of a torus of edge 3, a corner, has 26 live neighbours.
C12_Witness ==
    /\ op = "countNeighbors"
    /\ config.periodicBoundaries
    /\ N = 3
    /\ <<args.x, args.y, args.z>> = <<0, 0, 0>>
    /\ InputGrid = AllButCell(N, <<0, 0, 0>>)
    /\ ret = RetNum(MaxNeighbors)

\* A grid with the three axes of length n, whatever its cells hold.
IsCube(grid, n) ==
    /\ DOMAIN grid = Idx(n)
    /\ \A x \in Idx(n) :
          /\ DOMAIN grid[x] = Idx(n)
          /\ \A y \in Idx(n) : DOMAIN grid[x][y] = Idx(n)

\* C13: copyGrid of a grid of the configured size returns a new grid object,
\* equal to the original under gridsEqual and cell by cell, and leaves the
\* original as it was; a later write to either leaves the other unchanged.
C13_CopyIsIndependent ==
    /\ (op = "copyGrid" /\ IsCube(InputGrid, N)) =>
          /\ ret.kind = "grid"
          /\ ret.num \notin DOMAIN pre
          /\ ResultGrid = InputGrid
          /\ gridsEqual(config, InputGrid, ResultGrid) = RetBool(TRUE)
          /\ \A r \in DOMAIN pre : heap[r] = pre[r]
    /\ (op = "setCell" /\ calls = 2) =>
          \A r \in DOMAIN pre : r # args.g => heap[r] = pre[r]

\* A cell of the copy was written after the copy was made, and the copy now
\* differs from the original.
C13_Witness ==
    /\ op = "setCell"
    /\ calls = 2
    /\ N = 2
    /\ args.g = 3
    /\ IsCube(heap[3], N)
    /\ \E r \in {1, 2} : pre[3] = pre[r] /\ heap[3] # heap[r] /\ heap[r] = pre[r]

\* C14: gridsEqual returns true exactly when the two grids have the same
\* dimension and the same value in every cell, and false otherwise, without
\* an error, whatever gridSize the engine has.
C14_GridsEqualIsEquality ==
    op = "gridsEqual" => ret = RetBool(pre[args.g] = pre[args.g2])

\* C15: setCell on a grid of the configured size writes the value at an
\* in-range position and changes no other cell; with a coordinate out of
\* range it changes nothing; it raises no error either way.
C15_SetCellWritesInRangeOnly ==
    (op = "setCell" /\ IsCube(InputGrid, N)) =>
        /\ ret = RetVoid
        /\ \A r \in DOMAIN pre : r # args.g => heap[r] = pre[r]
        /\ IsCube(heap[args.g], N)
        /\ \A c \in Cells(N) :
              heap[args.g][c[1]][c[2]][c[3]] =
                  IF c = <<args.x, args.y, args.z>> THEN args.v
                  ELSE InputGrid[c[1]][c[2]][c[3]]

\* An in-range write of a new value, and an out-of-range call.
C15_Witness ==
    /\ op = "setCell"
    /\ N = 2
    /\ IsCube(InputGrid, N)
    /\ <<args.x, args.y, args.z>> = <<1, 0, 1>>
    /\ args.v = 1
    /\ InputGrid[1][0][1] = 0
    /\ heap[args.g][1][0][1] = 1

\* C16: getCell on a grid of the configured size returns the stored value
\* at an in-range position and 0 otherwise, raises no error and leaves every
\* grid as it was; getCell after an in-range setCell returns what was written.
C16_GetCellReadsInRangeOnly ==
    /\ (op = "getCell" /\ IsCube(InputGrid, N)) =>
          /\ ret = RetNum(IF /\ args.x \in Idx(N) /\ args.y \in Idx(N) /\ args.z \in Idx(N)
                          THEN InputGrid[args.x][args.y][args.z] ELSE 0)
          /\ heap = pre
    /\ (/\ op = "setCell" /\ IsCube(InputGrid, N)
        /\ args.x \in Idx(N) /\ args.y \in Idx(N) /\ args.z \in Idx(N)) =>
          getCell(config, heap[args.g], args.x, args.y, args.z) = RetNum(args.v)

\* A read below the lattice, where the grid's first cell holds 1.
C16_Witness ==
    /\ op = "getCell"
    /\ IsCube(InputGrid, N)
    /\ <<args.x, args.y, args.z>> = <<-1, 0, 0>>
    /\ InputGrid[0][0][0] = 1
    /\ ret = RetNum(0)

\* C17: on any grid the engine created, whatever gridSize the engine has
\* now, setCell and getCell raise no error, getCell returns 0 for a position
\* outside that grid, and setCell leaves the grid's dimensions as they were.
C17_BoundsSafeAcrossConfigs ==
    /\ op \in {"setCell", "getCell"} => ret.kind # "TypeError"
    /\ (/\ op = "getCell"
        /\ ~(/\ args.x \in DOMAIN InputGrid
             /\ args.y \in DOMAIN InputGrid[args.x]
             /\ args.z \in DOMAIN InputGrid[args.x][args.y])) => ret = RetNum(0)
    /\ op = "setCell" =>
          /\ DOMAIN heap[args.g] = DOMAIN InputGrid
          /\ \A x \in DOMAIN InputGrid :
                /\ DOMAIN heap[args.g][x] = DOMAIN InputGrid[x]
                /\ \A y \in DOMAIN InputGrid[x] :
                      DOMAIN heap[args.g][x][y] = DOMAIN InputGrid[x][y]

\* The engine's configuration as it was when the last operation was called.
PreConfig == preObjs[preSelf]

\* C18: after updateConfig(partial) every field of partial has the value
\* supplied and every other field the value it had before the call, whatever
\* subset of the five fields partial holds and whatever calls came before.
C18_UpdateConfigMerges ==
    op = "updateConfig" =>
        /\ DOMAIN config = Fields
        /\ \A f \in Fields :
              config[f] = IF f \in DOMAIN args.partial THEN args.partial[f] ELSE PreConfig[f]

\* A second updateConfig that supplies gridSize and leaves birthRule, which
\* the first one had changed, as it was.
C18_Witness ==
    /\ op = "updateConfig"
    /\ calls = 2
    /\ DOMAIN args.partial = {"gridSize", "survivalMax"}
    /\ config.gridSize # PreConfig.gridSize
    /\ config.birthRule = 6
    /\ objs[1].birthRule = 4
    /\ config.survivalMax = 6
    /\ PreConfig.survivalMax = 5

\* The objects getConfig has returned: those the caller holds, but for the
\* one it constructed the engine with.
Snapshots == held \ {1}

\* C19: getConfig returns a new object holding the current value of the five
\* fields; an assignment to a field of an object getConfig returned changes
\* neither the engine's configuration nor any other configuration object.
C19_GetConfigSnapshot ==
    /\ op = "getConfig" =>
          /\ ret.kind = "config"
          /\ ret.num \notin DOMAIN preObjs
          /\ ret.num # self
          /\ DOMAIN objs[ret.num] = Fields
          /\ \A f \in Fields : objs[ret.num][f] = config[f]
          /\ self = preSelf
          /\ \A r \in DOMAIN preObjs : objs[r] = preObjs[r]
    /\ (op = "assign" /\ args.r \in Snapshots) =>
          /\ self = preSelf
          /\ config = PreConfig
          /\ createEmptyGrid(config) = createEmptyGrid(PreConfig)
          /\ \A r \in DOMAIN objs : r # args.r => objs[r] = preObjs[r]

\* Two snapshots were taken and a field of the first assigned: it now
\* differs from the engine's configuration and from the second.
C19_Witness ==
    /\ op = "assign"
    /\ args.r \in Snapshots
    /\ Cardinality(Snapshots) = 2
    /\ objs[args.r] # config
    /\ \E r \in Snapshots : r # args.r /\ objs[r] = config

\* The configuration a call is to use: for each field some updateConfig has
\* supplied, the value supplied last; for the others the engine's own.
LatestConfig ==
    [f \in Fields |-> IF f \in DOMAIN latest THEN latest[f] ELSE objs[self][f]]

\* C20: createEmptyGrid, countNeighbors, applyCellRule and step use, for
\* every field, the value the latest updateConfig that supplied it gave, and
\* updateConfig changes no grid.
C20_UpdateTakesEffectForLaterCalls ==
    /\ op = "updateConfig" => (heap = pre /\ ret = RetVoid)
    /\ op = "createEmptyGrid" =>
          /\ ret.kind = "grid"
          /\ IsCube(heap[ret.num], LatestConfig.gridSize)
          /\ \A r \in DOMAIN pre : heap[r] = pre[r]
    /\ op = "countNeighbors" =>
          ret = countNeighbors(LatestConfig, pre[args.g], args.x, args.y, args.z)
    /\ op = "applyCellRule" =>
          ret = RetBool(IF args.b
                        THEN /\ args.v >= LatestConfig.survivalMin
                             /\ args.v <= LatestConfig.survivalMax
                        ELSE args.v = LatestConfig.birthRule)
    /\ op = "step" => Outcome(heap, ret) = step(pre, LatestConfig, args.g)

\* After an updateConfig that changed gridSize from 1 to 2, createEmptyGrid
\* returns a grid of edge 2 and the grid created before is still of edge 1.
C20_Witness ==
    /\ op = "createEmptyGrid"
    /\ "gridSize" \in DOMAIN latest
    /\ objs[1].gridSize = 1
    /\ latest.gridSize = 2
    /\ IsCube(heap[1], 1)
    /\ IsCube(heap[2], 2)

\* C21: createRandomGrid returns a grid of the configured dimension: the
\* all-dead one for density <= 0, the all-alive one for density >= 1, and
\* otherwise the one whose live cells are those whose own draw is below
\* density.  Densities and draws are in halves: 1 is a density of 2 halves.
C21_RandomGridClamps ==
    op = "createRandomGrid" =>
        /\ ret.kind = "grid"
        /\ ret.num \notin DOMAIN pre
        /\ IsBinaryCube(ResultGrid, N)
        /\ args.v <= 0 => ResultGrid = createEmptyGrid(config)
        /\ args.v >= 2 => ResultGrid = AllAlive(N)
        /\ \A c \in Cells(N) :
              ResultGrid[c[1]][c[2]][c[3]] = 1 <=>
                  args.draws[c[1] * N * N + c[2] * N + c[3] + 1] < args.v

\* A density of 1/2 on an edge of 2, with draws on both sides of it.
C21_Witness ==
    /\ op = "createRandomGrid"
    /\ N = 2
    /\ args.v = 1
    /\ args.draws[1] = 1
    /\ args.draws[8] = 0
    /\ ResultGrid[0][0][0] = 0
    /\ ResultGrid[1][1][1] = 1

\* C22: countNeighbors of an in-range cell of a grid of the configured size
\* that createEmptyGrid, createRandomGrid, setCell, copyGrid and step can
\* produce is an integer from 0 to 26.
C22_CountWithinRange ==
    (op = "countNeighbors" /\ IsCube(InputGrid, N)) =>
        /\ ret.kind = "number"
        /\ ret.num \in 0 .. MaxNeighbors

----------------------------------------------------------------------------
(* The component *)

\* C23: in the initial state, before the user touches any rule control, the
\* rules in effect are birth on exactly 5 neighbours and survival on 4 to 6
\* neighbours.
C23_DefaultRulesBirth5Survival4To6 ==
    op \in {"mount", "effects"} =>
        /\ ui.birthRule = 5
        /\ ui.survivalMin = 4
        /\ ui.survivalMax = 6
        /\ ~NoEngine => config = GameEngine(ui)

\* The number of cells of the cube of edge n that are 1 in grid.
LiveCells(grid, n) == Cardinality({c \in Cells(n) : grid[c[1]][c[2]][c[3]] = 1})

\* C24: once every reset (randomize or clear, from a button or from a
\* change of grid size or density) and every step (manual or timer-driven)
\* has been rendered, aliveCells is the number of live cells of logicGrid,
\* which is what countLivingCells returns for it; after a clear the
\* logicGrid is all-dead, aliveCells is 0 and generation is 0.
C24_AliveCellsCountsLogicGrid ==
    /\ (mounted /\ ~NoEngine /\ Idle(queue) /\ op \in {"reset", "clear", "step", "render"}) =>
          /\ IsCube(ui.logicGrid, ui.gridSize)
          /\ ui.aliveCells = RetNum(LiveCells(ui.logicGrid, ui.gridSize))
          /\ ui.aliveCells = countLivingCells(config, ui.logicGrid)
    /\ (mounted /\ ~NoEngine /\ op = "clear") =>
          /\ ui.logicGrid = GridOf(ui.gridSize, {})
          /\ ui.aliveCells = RetNum(0)
          /\ ui.generation = 0

\* At most one interval is active, and none while isRunning is false.
OneInterval ==
    mounted =>
        /\ Cardinality(timers) <= 1
        /\ ~ui.isRunning => (timers = {} /\ ui.simulationInterval = 0)

\* A simulation that is not running advances a generation only by a click
\* on Step.
AdvancesOnStep ==
    (mounted /\ ~ui.isRunning /\ mounted' /\ ui'.generation > ui.generation) => op' = "step"

\* C25: at most one stepping interval is active, and whenever isRunning is
\* false no interval is active and simulationInterval is null, so that a
\* paused or reset simulation never advances a generation on its own.
C25_AtMostOneInterval == []OneInterval /\ [][AdvancesOnStep]_vars

\* C26: survivalMin <= survivalMax in every reachable state of the
\* component, whatever values in 1..26 the two survival sliders are moved
\* to, and the engine the component holds is constructed from those values.
C26_SurvivalRangeOrdered ==
    /\ ui.survivalMin <= ui.survivalMax
    /\ ~NoEngine => /\ config = GameEngine(ui)
                    /\ config.survivalMin <= config.survivalMax

\* The minimum was moved above the maximum, to the top of the slider, and
\* the maximum followed it.
C26_Witness ==
    /\ op = "setSurvivalMin"
    /\ ui.survivalMin = SliderMax
    /\ ui.survivalMax = SliderMax
    /\ config.survivalMax = SliderMax

----------------------------------------------------------------------------
(* Degenerate configurations *)

\* C27: with survivalMin > survivalMax, whether from the constructor or
\* from updateConfig, applyCellRule(true, n) is false for every n in 0..26,
\* updateConfig and step return without error, and every live cell of
\* step(grid) was dead in grid and has birthRule live neighbours there.
C27_InvertedRangeNoSurvival ==
    config.survivalMin > config.survivalMax =>
        /\ (op = "applyCellRule" /\ args.b) => ret = RetBool(FALSE)
        /\ op = "updateConfig" => (ret = RetVoid /\ config = Spread(PreConfig, args.partial))
        /\ op = "step" =>
              /\ ret.kind = "grid"
              /\ IsBinaryCube(ResultGrid, N)
              /\ \A c \in Cells(N) :
                    ResultGrid[c[1]][c[2]][c[3]] = 1 =>
                        /\ InputGrid[c[1]][c[2]][c[3]] = 0
                        /\ countNeighbors(config, InputGrid, c[1], c[2], c[3])
                               = RetNum(config.birthRule)

\* After an updateConfig inverted the range, step was called on a grid with
\* a live cell whose count lies between the two bounds: it died, and a cell
\* was born.
C27_Witness ==
    /\ op = "step"
    /\ calls = 2
    /\ config.survivalMin > config.survivalMax
    /\ \E c \in Cells(N) :
          /\ InputGrid[c[1]][c[2]][c[3]] = 1
          /\ countNeighbors(config, InputGrid, c[1], c[2], c[3]).num >= config.survivalMax
          /\ countNeighbors(config, InputGrid, c[1], c[2], c[3]).num <= config.survivalMin
          /\ ResultGrid[c[1]][c[2]][c[3]] = 0
    /\ \E c \in Cells(N) : ResultGrid[c[1]][c[2]][c[3]] = 1

\* C28: the engine's configuration changes only through updateConfig: an
\* assignment to a field of the object that was passed to the constructor
\* leaves the configuration the engine reads and returns as it was, and an
\* updateConfig leaves that object as it was.
C28_ConfigChangesOnlyThroughUpdateConfig ==
    /\ (op = "assign" /\ args.r = 1) => config = PreConfig
    /\ op = "updateConfig" => objs[1] = preObjs[1]

----------------------------------------------------------------------------
(* The torus *)

\* The cell at loop position k of the cube of edge n.
CellAt(n, k) == <<(k - 1) \div (n * n), ((k - 1) \div n) % n, (k - 1) % n>>

\* The sum of countNeighbors over the first k cells of the cube.
RECURSIVE NeighbourTotal(_, _, _)
NeighbourTotal(cfg, grid, k) ==
    IF k = 0 THEN 0
    ELSE countNeighbors(cfg, grid, CellAt(cfg.gridSize, k)[1], CellAt(cfg.gridSize, k)[2],
                        CellAt(cfg.gridSize, k)[3]).num
         + NeighbourTotal(cfg, grid, k - 1)

\* C29: with periodicBoundaries = true and a binary grid, every count is a
\* number and the sum of countNeighbors over all gridSize^3 cells is 26 times
\* countLivingCells(grid), for every gridSize.
C29_NeighbourTotalIs26TimesLiving ==
    (op = "countLivingCells" /\ config.periodicBoundaries /\ IsBinaryCube(InputGrid, N)) =>
        /\ ret.kind = "number"
        /\ \A c \in Cells(N) :
              countNeighbors(config, InputGrid, c[1], c[2], c[3]).kind = "number"
        /\ NeighbourTotal(config, InputGrid, NumCells(N)) = MaxNeighbors * ret.num

\* The living cells of a torus of edge 2 were counted, on which a cell has
\* more neighbours than there are other cells: offsets share their targets.
C29_Witness ==
    /\ op = "countLivingCells"
    /\ config.periodicBoundaries
    /\ N = 2
    /\ ret = RetNum(NumCells(N) - 1)
    /\ \E c \in Cells(N) :
          countNeighbors(config, InputGrid, c[1], c[2], c[3]).num > NumCells(N) - 1

\* C30: with periodicBoundaries = true, stepping a translated grid gives the
\* translation of the stepped grid, for every binary grid and every shift
\* (a, b, c) along the torus.
C30_StepCommutesWithShift ==
    (op = "step" /\ calls = 3 /\ config.periodicBoundaries) =>
        /\ ret = RetGrid(4)
        /\ IsBinaryCube(heap[4], N)
        /\ \A a \in Idx(N), b \in Idx(N), c \in Idx(N) :
              heap[3] = Shift(heap[1], N, a, b, c) => heap[4] = Shift(heap[2], N, a, b, c)

\* A grid of edge 3 with two live cells and a translation of it that is
\* another grid were stepped: the results differ, and hold live and dead
\* cells.
C30_Witness ==
    /\ op = "step"
    /\ calls = 3
    /\ N = 3
    /\ LiveCells(heap[1], N) = 2
    /\ heap[3] # heap[1]
    /\ heap[4] # heap[2]
    /\ LiveCells(heap[2], N) \in 1 .. (NumCells(N) - 1)

====
